---- MODULE Spec2Model ----
(***************************************************************************)
(* A model of the Zammad MCP server (main.go): the startup sequence of     *)
(* main, the four resource handlers and the seventeen tool handlers.       *)
(*                                                                         *)
(* Every handler is synchronous: it parses its arguments, issues zero or   *)
(* more calls to the Zammad backend, one after the other, and returns a    *)
(* result.  A handler is therefore an operator of the request, the data    *)
(* the backend holds and the way the backend answers each call, and its    *)
(* value is the sequence of backend calls it issued together with the      *)
(* result it returned.  One action per handler records that value.         *)
(*                                                                         *)
(* Strings whose content matters (titles, bodies, search terms, URI        *)
(* arguments) are sequences of bytes; credentials, the URL, message        *)
(* formats and operation names are opaque TLA+ strings.                    *)
(***************************************************************************)
EXTENDS Integers, Sequences, FiniteSets, TLC

VARIABLES
    phase,          \* where main is: "start", "serving" or "exited"
    env,            \* the process environment: ZAMMAD_URL and ZAMMAD_TOKEN
    zammadClient,   \* the package-level *zammad.Client (main.go:38)
    backend,        \* the data held by the Zammad instance
    request,        \* the request handled last
    calls,          \* the backend calls that request issued, in order
    result,         \* what the handler returned for it
    encoder,        \* whether json.MarshalIndent succeeded for that request
    inflight        \* the requests being handled concurrently, per goroutine

vars == <<phase, env, zammadClient, backend, request, calls, result, encoder,
          inflight>>

(***************************************************************************)
(* Bounds of the model.                                                    *)
(***************************************************************************)
MaxId == 2          \* identifiers in requests range over -1 .. MaxId
MaxItems == 2       \* a list the backend returns has at most this many entries
MaxStrLen == 3      \* the strings given to containsIgnoreCase have at most this many bytes

(***************************************************************************)
(* Program constants.                                                      *)
(***************************************************************************)
MaxTagLen == 100        \* len(tagName) > 100
DefaultLimit == 50      \* mcp.ParseInt(request, "limit", 50)
StatusOK == 200         \* http.StatusOK
StatusCreated == 201    \* http.StatusCreated
StatusNotFound == 404   \* http.StatusNotFound

(***************************************************************************)
(* Byte strings.                                                           *)
(***************************************************************************)
Empty == <<>>
Str_x == <<120>>                      \* "x"
Str_Re == <<82, 101, 58, 32>>         \* "Re: "
Str_note == <<110, 111, 116, 101>>    \* "note"
Str_email == <<101, 109, 97, 105, 108>> \* "email"
Str_Agent == <<65, 103, 101, 110, 116>> \* "Agent"
Str_html == <<116, 101, 120, 116, 47, 104, 116, 109, 108>> \* "text/html"
Str_closed == <<99, 108, 111, 115, 101, 100>>  \* "closed"
Str_open == <<111, 112, 101, 110>>    \* "open"
Str_Ticket == <<84, 105, 99, 107, 101, 116>>   \* "Ticket"
Str_TicketClosed == <<84, 105, 99, 107, 101, 116, 32, 99, 108, 111, 115, 101, 100>>
Str_TicketAssigned ==
    <<84, 105, 99, 107, 101, 116, 32, 97, 115, 115, 105, 103, 110, 101, 100>>

\* An optional argument: absent (<<>>) or present with a value (<<v>>).
Opt(S) == {<<>>} \cup {<<v>> : v \in S}

\* The arguments of a request: each key with its value, absent keys left out.
Arg(key, o) == IF Len(o) = 0 THEN <<>> ELSE <<<<key, o[1]>>>>

HasArg(req, key) == \E i \in 1..Len(req.args) : req.args[i][1] = key

ArgValue(req, key) ==
    LET i == CHOOSE j \in 1..Len(req.args) : req.args[j][1] = key
    IN  req.args[i][2]

\* mcp.ParseString / ParseInt / ParseBoolean: the argument, or the default
\* when the request does not carry it.
ParseString(req, key, default) ==
    IF HasArg(req, key) THEN ArgValue(req, key) ELSE default

ParseInt(req, key, default) ==
    IF HasArg(req, key) THEN ArgValue(req, key) ELSE default

ParseBoolean(req, key, default) ==
    IF HasArg(req, key) THEN ArgValue(req, key) ELSE default

(***************************************************************************)
(* strconv.Atoi on a byte string: an optional sign followed by one or      *)
(* more decimal digits; anything else is an error.                         *)
(***************************************************************************)
IsDigit(c) == c >= 48 /\ c <= 57

RECURSIVE DigitsValue(_)
DigitsValue(s) ==
    IF Len(s) = 0 THEN 0
    ELSE 10 * DigitsValue(SubSeq(s, 1, Len(s) - 1)) + (s[Len(s)] - 48)

Atoi(s) ==
    LET signed == Len(s) > 0 /\ (s[1] = 43 \/ s[1] = 45)
        digits == IF signed THEN Tail(s) ELSE s
        valid  == Len(digits) > 0 /\ \A i \in 1..Len(digits) : IsDigit(digits[i])
        mag    == IF valid THEN DigitsValue(digits) ELSE 0
    IN  [ok  |-> valid,
         val |-> IF signed /\ s[1] = 45 THEN 0 - mag ELSE mag]

(***************************************************************************)
(* toLower and containsIgnoreCase (main.go:1151-1183).                     *)
(***************************************************************************)
\* A mutant of toLower: no folding at all.
toLower_Identity(s) == s

toLower(s) ==
    [i \in 1..Len(s) |->
        IF s[i] >= 65 /\ s[i] <= 90 THEN (s[i] + 32) % 256 ELSE s[i]]

\* A mutant of containsIgnoreCase: the loop stops one offset early
\* (i < len(sLower)-len(substrLower)).
containsIgnoreCase_ShortLoop(s, substr) ==
    IF Len(substr) = 0 THEN TRUE
    ELSE IF Len(s) < Len(substr) THEN FALSE
    ELSE LET sLower == toLower(s)
             substrLower == toLower(substr)
         IN  \E i \in 0..(Len(sLower) - Len(substrLower) - 1) :
                SubSeq(sLower, i + 1, i + Len(substrLower)) = substrLower

containsIgnoreCase(s, substr) ==
    IF Len(substr) = 0 THEN TRUE
    ELSE IF Len(s) < Len(substr) THEN FALSE
    ELSE LET sLower == toLower(s)
             substrLower == toLower(substr)
         IN  \E i \in 0..(Len(sLower) - Len(substrLower)) :
                SubSeq(sLower, i + 1, i + Len(substrLower)) = substrLower

\* The slices sLower[i:i+len(substrLower)] the loop of containsIgnoreCase
\* takes, as pairs of Go slice bounds: those of every offset up to the
\* first match, of every offset when nothing matches.
containsIgnoreCaseSlices(s, substr) ==
    IF Len(substr) = 0 \/ Len(s) < Len(substr) THEN {}
    ELSE LET sLower == toLower(s)
             substrLower == toLower(substr)
             hit(i) == SubSeq(sLower, i + 1, i + Len(substrLower)) = substrLower
         IN  {<<i, i + Len(substrLower)>> :
                 i \in {k \in 0..(Len(sLower) - Len(substrLower)) :
                            \A h \in 0..(k - 1) : ~hit(h)}}

(***************************************************************************)
(* The backend.  It holds one ticket (id 1) and one user (id 1); the       *)
(* variable backend keeps the ticket's title, state and owner.  Every      *)
(* call is answered according to a mode, an input of the handler's action: *)
(* "ok" (the backend serves the call), "neterr" (transport failure),       *)
(* "http500" (a non-success status), "badjson" (status 200 with a body     *)
(* that does not decode) and "created" (status 201).                      *)
(***************************************************************************)
ExistingIds == {1}

Ticket(b) == [id |-> 1, title |-> b.title, state |-> b.state, owner_id |-> b.owner_id]

\* The user as the backend holds it: the standard fields, a typed field the
\* tool does not report (phone) and a custom field (department).
RawUser ==
    [id |-> 1, organization_id |-> 1, login |-> Str_x, firstname |-> Str_x,
     lastname |-> Str_x, email |-> Str_x, web |-> Empty, last_login |-> Empty,
     phone |-> Str_x, department |-> Str_x]

\* zammad.User as the typed client decodes it: no custom fields.
TypedUser == [f \in (DOMAIN RawUser) \ {"department"} |-> RawUser[f]]

Resp(err, status, body) == [err |-> err, status |-> status, body |-> body]

\* The answer to a typed client call: the library reports a transport
\* failure, a non-success status or an undecodable body as an error.
TypedResp(mode, exists, value) ==
    IF mode = "ok" /\ exists
    THEN Resp(FALSE, StatusOK, <<value>>)
    ELSE Resp(TRUE, 0, <<>>)

\* The answer to a raw HTTP call made with zammadClient.Client.Do.
RawResp(mode, exists, value) ==
    CASE mode = "neterr"  -> Resp(TRUE, 0, <<>>)
      [] mode = "http500" -> Resp(FALSE, 500, <<>>)
      [] mode = "badjson" -> Resp(FALSE, StatusOK, <<>>)
      [] mode = "created" -> Resp(FALSE, StatusCreated, <<value>>)
      [] OTHER -> IF exists THEN Resp(FALSE, StatusOK, <<value>>)
                  ELSE Resp(FALSE, StatusNotFound, <<>>)

\* The credential of a typed client call is attached by the library.
LibraryAuth == [scheme |-> "library", cred |-> ""]

Call(op, raw, id, payload, auth, resp) ==
    [op |-> op, raw |-> raw, id |-> id, payload |-> payload, auth |-> auth,
     resp |-> resp]

TypedCall(op, id, payload, resp) == Call(op, FALSE, id, payload, LibraryAuth, resp)

(***************************************************************************)
(* The Authorization header of a raw request: the three consecutive ifs    *)
(* every raw-HTTP handler repeats.  SetBasicAuth and Header.Set both       *)
(* replace the header, so a later if overwrites an earlier one.            *)
(***************************************************************************)
NoAuth == [scheme |-> "none", cred |-> ""]

\* A mutant of ApplyAuthHeaders: the bearer header is set without the test
\* that an OAuth token is configured, so it replaces the token's header.
ApplyAuthHeaders_UnguardedBearer(client) ==
    [scheme |-> "Bearer", cred |-> client.OAuth]

ApplyAuthHeaders(client) ==
    LET h1 == IF client.Username # "" /\ client.Password # ""
              THEN [scheme |-> "Basic", cred |-> client.Username]
              ELSE NoAuth
        h2 == IF client.Token # ""
              THEN [scheme |-> "Token", cred |-> client.Token]
              ELSE h1
        h3 == IF client.OAuth # ""
              THEN [scheme |-> "Bearer", cred |-> client.OAuth]
              ELSE h2
    IN  h3

\* zammadClient.NewRequest builds the request for the URL made of the
\* client's base URL and a fixed path.  The payloads the handlers pass
\* (nothing, or a map of strings and numbers) always encode, so building
\* fails exactly when the base URL does not parse.
BadUrl == "http://[zammad"

NewRequestFails(client) == client.Url = BadUrl

RawCall(op, id, payload, client, resp) ==
    Call(op, TRUE, id, payload, ApplyAuthHeaders(client), resp)

(***************************************************************************)
(* Results.  A tool handler returns a CallToolResult and an error: a text  *)
(* result, a tool-level error result, or a protocol-level error.  A        *)
(* resource handler returns contents or an error, which may wrap           *)
(* ErrResourceNotFound.  msg is the format string of the message and data  *)
(* the values formatted into it.                                           *)
(***************************************************************************)
NewToolResultText(msg, data) ==
    [kind |-> "text", msg |-> msg, data |-> data, notFound |-> FALSE]

NewToolResultError(msg) ==
    [kind |-> "toolError", msg |-> msg, data |-> <<>>, notFound |-> FALSE]

ProtocolError(msg, notFound) ==
    [kind |-> "error", msg |-> msg, data |-> <<>>, notFound |-> notFound]

ResourceContents(data) ==
    [kind |-> "contents", msg |-> "application/json", data |-> data,
     notFound |-> FALSE]

NoResult == [kind |-> "none", msg |-> "", data |-> <<>>, notFound |-> FALSE]

\* What a handler leaves behind when it returns: the package variable
\* zammadClient as the handler leaves it, the backend calls it issued and its
\* return value.  No handler assigns zammadClient or a field of it, so every
\* return passes on the client the handler was entered with.
Out(client, cs, res) == [client |-> client, calls |-> cs, result |-> res]

\* json.MarshalIndent: the encoded value, or nothing when encoding fails.
MarshalIndent(value, ok) == IF ok THEN <<value>> ELSE <<>>

\* The inputs of a handler that come from the backend and the encoder: the
\* modes of its first and second call, whether JSON encoding succeeds, and
\* the collection a list or search call returns.
Oracle(m1, m2, marshal, items) ==
    [m1 |-> m1, m2 |-> m2, marshal |-> marshal, items |-> items]

(***************************************************************************)
(* Resource handlers (main.go:127-241).  A URI argument is a value that is *)
(* a string or not: [isString, v].                                         *)
(***************************************************************************)
handleListTickets(req, client, b, o) ==
    LET c1 == TypedCall("TicketList", 0, <<>>, TypedResp(o.m1, TRUE, <<Ticket(b)>>))
    IN  IF c1.resp.err
        THEN Out(client, <<c1>>, ProtocolError("failed to fetch tickets: %w", FALSE))
        ELSE IF ~o.marshal
        THEN Out(client, <<c1>>, ProtocolError("failed to marshal tickets: %w", FALSE))
        ELSE Out(client, <<c1>>, ResourceContents(c1.resp.body))

handleShowTicket(req, client, b, o) ==
    LET ok == HasArg(req, "ticket_id") /\ ArgValue(req, "ticket_id").isString
        ticketIDStr == IF ok THEN ArgValue(req, "ticket_id").v ELSE Empty
        conv == Atoi(ticketIDStr)
        ticketID == conv.val
        c1 == TypedCall("TicketShow", ticketID, <<>>,
                        TypedResp(o.m1, ticketID \in ExistingIds, Ticket(b)))
    IN  IF ~ok
        THEN Out(client, <<>>, ProtocolError("%w: invalid or missing ticket_id in URI", TRUE))
        ELSE IF ~conv.ok
        THEN Out(client, <<>>, ProtocolError("%w: invalid ticket_id format: %w", TRUE))
        ELSE IF c1.resp.err
        THEN Out(client, <<c1>>, ProtocolError("%w: failed to fetch ticket %d: %w", TRUE))
        ELSE IF ~o.marshal
        THEN Out(client, <<c1>>, ProtocolError("failed to marshal ticket %d: %w", FALSE))
        ELSE Out(client, <<c1>>, ResourceContents(c1.resp.body))

handleListUsers(req, client, b, o) ==
    LET c1 == TypedCall("UserList", 0, <<>>, TypedResp(o.m1, TRUE, <<TypedUser>>))
    IN  IF c1.resp.err
        THEN Out(client, <<c1>>, ProtocolError("failed to fetch users: %w", FALSE))
        ELSE IF ~o.marshal
        THEN Out(client, <<c1>>, ProtocolError("failed to marshal users: %w", FALSE))
        ELSE Out(client, <<c1>>, ResourceContents(c1.resp.body))

\* A mutant of handleShowUser: an encoding failure is wrapped as not found too.
handleShowUser_AllNotFound(req, client, b, o) ==
    LET ok == HasArg(req, "user_id") /\ ArgValue(req, "user_id").isString
        userIDStr == IF ok THEN ArgValue(req, "user_id").v ELSE Empty
        conv == Atoi(userIDStr)
        userID == conv.val
        c1 == TypedCall("UserShow", userID, <<>>,
                        TypedResp(o.m1, userID \in ExistingIds, TypedUser))
    IN  IF ~ok
        THEN Out(client, <<>>, ProtocolError("%w: invalid or missing user_id in URI", TRUE))
        ELSE IF ~conv.ok
        THEN Out(client, <<>>, ProtocolError("%w: invalid user_id format: %w", TRUE))
        ELSE IF c1.resp.err
        THEN Out(client, <<c1>>, ProtocolError("%w: failed to fetch user %d: %w", TRUE))
        ELSE IF ~o.marshal
        THEN Out(client, <<c1>>, ProtocolError("failed to marshal user %d: %w", TRUE))
        ELSE Out(client, <<c1>>, ResourceContents(c1.resp.body))

handleShowUser(req, client, b, o) ==
    LET ok == HasArg(req, "user_id") /\ ArgValue(req, "user_id").isString
        userIDStr == IF ok THEN ArgValue(req, "user_id").v ELSE Empty
        conv == Atoi(userIDStr)
        userID == conv.val
        c1 == TypedCall("UserShow", userID, <<>>,
                        TypedResp(o.m1, userID \in ExistingIds, TypedUser))
    IN  IF ~ok
        THEN Out(client, <<>>, ProtocolError("%w: invalid or missing user_id in URI", TRUE))
        ELSE IF ~conv.ok
        THEN Out(client, <<>>, ProtocolError("%w: invalid user_id format: %w", TRUE))
        ELSE IF c1.resp.err
        THEN Out(client, <<c1>>, ProtocolError("%w: failed to fetch user %d: %w", TRUE))
        ELSE IF ~o.marshal
        THEN Out(client, <<c1>>, ProtocolError("failed to marshal user %d: %w", FALSE))
        ELSE Out(client, <<c1>>, ResourceContents(c1.resp.body))

(***************************************************************************)
(* Tool handlers (main.go:356-1149).                                       *)
(***************************************************************************)
\* zammad.TicketArticle: the fields a handler does not set keep Go's zero
\* value.
TicketArticle(ticketID, body, type, internal, sender, subject, to, cc, contentType) ==
    [TicketID |-> ticketID, Body |-> body, Type |-> type, Internal |-> internal,
     Sender |-> sender, Subject |-> subject, To |-> to, Cc |-> cc,
     ContentType |-> contentType]

\* What the backend returns for a created article or ticket: the payload
\* with the identifier it assigned.
Created(payload) == [ID |-> 1, of |-> payload]

\* A mutant of handleCreateTicket: the first article is internal unless the
\* caller says otherwise.
handleCreateTicket_InternalDefault(req, client, b, o) ==
    LET title == ParseString(req, "title", Empty)
        group == ParseString(req, "group", Empty)
        customer == ParseString(req, "customer", Empty)
        body == ParseString(req, "body", Empty)
        articleType == ParseString(req, "type", Str_note)
        internal == ParseBoolean(req, "internal", TRUE)
        ticket == [Title |-> title, Group |-> group, Customer |-> customer,
                   Article |-> TicketArticle(0, body, articleType, internal,
                                             Empty, Empty, Empty, Empty, Empty)]
        c1 == TypedCall("TicketCreate", 0, ticket, TypedResp(o.m1, TRUE, Created(ticket)))
    IN  IF title = Empty \/ group = Empty \/ customer = Empty \/ body = Empty
        THEN Out(client, <<>>, NewToolResultError(
                 "Missing required arguments: title, group, customer, body"))
        ELSE IF c1.resp.err
        THEN Out(client, <<c1>>, NewToolResultError("Failed to create ticket"))
        ELSE Out(client, <<c1>>, NewToolResultText("Ticket created successfully:",
                                           MarshalIndent(c1.resp.body[1], o.marshal)))

handleCreateTicket(req, client, b, o) ==
    LET title == ParseString(req, "title", Empty)
        group == ParseString(req, "group", Empty)
        customer == ParseString(req, "customer", Empty)
        body == ParseString(req, "body", Empty)
        articleType == ParseString(req, "type", Str_note)
        internal == ParseBoolean(req, "internal", FALSE)
        ticket == [Title |-> title, Group |-> group, Customer |-> customer,
                   Article |-> TicketArticle(0, body, articleType, internal,
                                             Empty, Empty, Empty, Empty, Empty)]
        c1 == TypedCall("TicketCreate", 0, ticket, TypedResp(o.m1, TRUE, Created(ticket)))
    IN  IF title = Empty \/ group = Empty \/ customer = Empty \/ body = Empty
        THEN Out(client, <<>>, NewToolResultError(
                 "Missing required arguments: title, group, customer, body"))
        ELSE IF c1.resp.err
        THEN Out(client, <<c1>>, NewToolResultError("Failed to create ticket"))
        ELSE Out(client, <<c1>>, NewToolResultText("Ticket created successfully:",
                                           MarshalIndent(c1.resp.body[1], o.marshal)))

\* A mutant of handleSearchTickets: the query is not checked.
handleSearchTickets_NoQueryCheck(req, client, b, o) ==
    LET query == ParseString(req, "query", Empty)
        limit == ParseInt(req, "limit", DefaultLimit)
        c1 == TypedCall("TicketSearch", 0, [query |-> query, limit |-> limit],
                        TypedResp(o.m1, TRUE, o.items))
    IN  IF c1.resp.err
        THEN Out(client, <<c1>>, NewToolResultError("Failed to search tickets"))
        ELSE IF ~o.marshal
        THEN Out(client, <<c1>>, NewToolResultError("Failed to format search results"))
        ELSE Out(client, <<c1>>, NewToolResultText("Search Results (%d found):", c1.resp.body))

handleSearchTickets(req, client, b, o) ==
    LET query == ParseString(req, "query", Empty)
        limit == ParseInt(req, "limit", DefaultLimit)
        c1 == TypedCall("TicketSearch", 0, [query |-> query, limit |-> limit],
                        TypedResp(o.m1, TRUE, o.items))
    IN  IF query = Empty
        THEN Out(client, <<>>, NewToolResultError("Missing required argument: query"))
        ELSE IF c1.resp.err
        THEN Out(client, <<c1>>, NewToolResultError("Failed to search tickets"))
        ELSE IF ~o.marshal
        THEN Out(client, <<c1>>, NewToolResultError("Failed to format search results"))
        ELSE Out(client, <<c1>>, NewToolResultText("Search Results (%d found):", c1.resp.body))

handleAddNoteToTicket(req, client, b, o) ==
    LET ticketID == ParseInt(req, "ticket_id", 0)
        body == ParseString(req, "body", Empty)
        internal == ParseBoolean(req, "internal", TRUE)
        article == TicketArticle(ticketID, body, Str_note, internal,
                                 Empty, Empty, Empty, Empty, Empty)
        c1 == TypedCall("TicketArticleCreate", ticketID, article,
                        TypedResp(o.m1, ticketID \in ExistingIds, Created(article)))
    IN  IF ticketID <= 0 \/ body = Empty
        THEN Out(client, <<>>, NewToolResultError(
                 "Missing or invalid required arguments: ticket_id, body"))
        ELSE IF c1.resp.err
        THEN Out(client, <<c1>>, NewToolResultError("Failed to add note to ticket %d"))
        ELSE Out(client, <<c1>>, NewToolResultText("Note added successfully to ticket %d:",
                                           MarshalIndent(c1.resp.body[1], o.marshal)))

\* A mutant of ReplySubject: the title without the prefix.
ReplySubject_NoPrefix(title) == title

\* The default subject of a reply: fmt.Sprintf("Re: %s", ticket.Title).
ReplySubject(title) == Str_Re \o title

\* A mutant of handleReplyToTicket: the ticket is fetched also when the
\* caller gave a subject.
handleReplyToTicket_AlwaysFetch(req, client, b, o) ==
    LET ticketID == ParseInt(req, "ticket_id", 0)
        body == ParseString(req, "body", Empty)
        to == ParseString(req, "to", Empty)
        cc == ParseString(req, "cc", Empty)
        subjectArg == ParseString(req, "subject", Empty)
        internal == ParseBoolean(req, "internal", FALSE)
        show == TypedCall("TicketShow", ticketID, <<>>,
                          TypedResp(o.m1, ticketID \in ExistingIds, Ticket(b)))
        subject == IF subjectArg = Empty /\ ~show.resp.err
                   THEN ReplySubject(show.resp.body[1].title)
                   ELSE subjectArg
        article == TicketArticle(ticketID, body, Str_email, internal, Str_Agent,
                                 subject, to, cc, Str_html)
        create == TypedCall("TicketArticleCreate", ticketID, article,
                            TypedResp(o.m2, ticketID \in ExistingIds, Created(article)))
    IN  IF ticketID <= 0 \/ body = Empty
        THEN Out(client, <<>>, NewToolResultError(
                 "Missing or invalid required arguments: ticket_id, body"))
        ELSE IF show.resp.err
        THEN Out(client, <<show>>, NewToolResultError("Failed to fetch ticket %d"))
        ELSE IF create.resp.err
        THEN Out(client, <<show, create>>,
                 NewToolResultError("Failed to send email reply to ticket %d"))
        ELSE Out(client, <<show, create>>,
                 NewToolResultText("Email reply sent successfully to ticket %d:",
                                   MarshalIndent(create.resp.body[1], o.marshal)))

\* A mutant of handleReplyToTicket: a ticket that cannot be fetched leaves
\* the subject empty and the reply is sent all the same.
handleReplyToTicket_FetchOptional(req, client, b, o) ==
    LET ticketID == ParseInt(req, "ticket_id", 0)
        body == ParseString(req, "body", Empty)
        to == ParseString(req, "to", Empty)
        cc == ParseString(req, "cc", Empty)
        subjectArg == ParseString(req, "subject", Empty)
        internal == ParseBoolean(req, "internal", FALSE)
        show == TypedCall("TicketShow", ticketID, <<>>,
                          TypedResp(o.m1, ticketID \in ExistingIds, Ticket(b)))
        fetched == IF subjectArg = Empty THEN <<show>> ELSE <<>>
        subject == IF subjectArg = Empty /\ ~show.resp.err
                   THEN ReplySubject(show.resp.body[1].title)
                   ELSE subjectArg
        article == TicketArticle(ticketID, body, Str_email, internal, Str_Agent,
                                 subject, to, cc, Str_html)
        create == TypedCall("TicketArticleCreate", ticketID, article,
                            TypedResp(IF subjectArg = Empty THEN o.m2 ELSE o.m1,
                                      ticketID \in ExistingIds, Created(article)))
    IN  IF ticketID <= 0 \/ body = Empty
        THEN Out(client, <<>>, NewToolResultError(
                 "Missing or invalid required arguments: ticket_id, body"))
        ELSE IF create.resp.err
        THEN Out(client, fetched \o <<create>>,
                 NewToolResultError("Failed to send email reply to ticket %d"))
        ELSE Out(client, fetched \o <<create>>,
                 NewToolResultText("Email reply sent successfully to ticket %d:",
                                   MarshalIndent(create.resp.body[1], o.marshal)))

handleReplyToTicket(req, client, b, o) ==
    LET ticketID == ParseInt(req, "ticket_id", 0)
        body == ParseString(req, "body", Empty)
        to == ParseString(req, "to", Empty)
        cc == ParseString(req, "cc", Empty)
        subjectArg == ParseString(req, "subject", Empty)
        internal == ParseBoolean(req, "internal", FALSE)
        show == TypedCall("TicketShow", ticketID, <<>>,
                          TypedResp(o.m1, ticketID \in ExistingIds, Ticket(b)))
        fetched == IF subjectArg = Empty THEN <<show>> ELSE <<>>
        subject == IF subjectArg = Empty /\ ~show.resp.err
                   THEN ReplySubject(show.resp.body[1].title)
                   ELSE subjectArg
        article == TicketArticle(ticketID, body, Str_email, internal, Str_Agent,
                                 subject, to, cc, Str_html)
        create == TypedCall("TicketArticleCreate", ticketID, article,
                            TypedResp(IF subjectArg = Empty THEN o.m2 ELSE o.m1,
                                      ticketID \in ExistingIds, Created(article)))
    IN  IF ticketID <= 0 \/ body = Empty
        THEN Out(client, <<>>, NewToolResultError(
                 "Missing or invalid required arguments: ticket_id, body"))
        ELSE IF subjectArg = Empty /\ show.resp.err
        THEN Out(client, <<show>>, NewToolResultError("Failed to fetch ticket %d"))
        ELSE IF create.resp.err
        THEN Out(client, fetched \o <<create>>,
                 NewToolResultError("Failed to send email reply to ticket %d"))
        ELSE Out(client, fetched \o <<create>>,
                 NewToolResultText("Email reply sent successfully to ticket %d:",
                                   MarshalIndent(create.resp.body[1], o.marshal)))

\* A mutant of handleGetTicket: the ticket is answered from a copy kept
\* since it was open and unassigned.
handleGetTicket_Stale(req, client, b, o) ==
    LET ticketID == ParseInt(req, "ticket_id", 0)
        c1 == TypedCall("TicketShow", ticketID, <<>>,
                        TypedResp(o.m1, ticketID \in ExistingIds, Ticket(b)))
        kept == [Ticket(b) EXCEPT !.state = Str_open, !.owner_id = 0]
    IN  IF ticketID <= 0
        THEN Out(client, <<>>, NewToolResultError(
                 "Missing or invalid required argument: ticket_id (must be a positive number)"))
        ELSE IF c1.resp.err
        THEN Out(client, <<c1>>, NewToolResultError("Failed to get ticket %d"))
        ELSE IF ~o.marshal
        THEN Out(client, <<c1>>, ProtocolError("failed to marshal ticket %d: %w", FALSE))
        ELSE Out(client, <<c1>>, NewToolResultText("Ticket %d details:", <<kept>>))

\* A mutant of handleGetTicket: the handler sets an OAuth token on the
\* shared client for its call and leaves it there.
handleGetTicket_SetsBearer(req, client, b, o) ==
    LET ticketID == ParseInt(req, "ticket_id", 0)
        c1 == TypedCall("TicketShow", ticketID, <<>>,
                        TypedResp(o.m1, ticketID \in ExistingIds, Ticket(b)))
        left == [client EXCEPT !.OAuth = "oauth"]
    IN  IF ticketID <= 0
        THEN Out(client, <<>>, NewToolResultError(
                 "Missing or invalid required argument: ticket_id (must be a positive number)"))
        ELSE IF c1.resp.err
        THEN Out(left, <<c1>>, NewToolResultError("Failed to get ticket %d"))
        ELSE IF ~o.marshal
        THEN Out(left, <<c1>>, ProtocolError("failed to marshal ticket %d: %w", FALSE))
        ELSE Out(left, <<c1>>, NewToolResultText("Ticket %d details:", c1.resp.body))

handleGetTicket(req, client, b, o) ==
    LET ticketID == ParseInt(req, "ticket_id", 0)
        c1 == TypedCall("TicketShow", ticketID, <<>>,
                        TypedResp(o.m1, ticketID \in ExistingIds, Ticket(b)))
    IN  IF ticketID <= 0
        THEN Out(client, <<>>, NewToolResultError(
                 "Missing or invalid required argument: ticket_id (must be a positive number)"))
        ELSE IF c1.resp.err
        THEN Out(client, <<c1>>, NewToolResultError("Failed to get ticket %d"))
        ELSE IF ~o.marshal
        THEN Out(client, <<c1>>, ProtocolError("failed to marshal ticket %d: %w", FALSE))
        ELSE Out(client, <<c1>>, NewToolResultText("Ticket %d details:", c1.resp.body))

StandardFields ==
    {"id", "organization_id", "login", "firstname", "lastname", "email", "web",
     "last_login"}

\* A mutant of handleGetUser: the standard answer is the whole typed user
\* instead of the eight fields the handler copies.
handleGetUser_WholeUser(req, client, b, o) ==
    LET userID == ParseInt(req, "user_id", 0)
        withExtendedData == ParseBoolean(req, "with_extended_data", FALSE)
        raw == RawCall("GET /api/v1/users/%d", userID, <<>>, client,
                       RawResp(o.m1, userID \in ExistingIds, RawUser))
        typed == TypedCall("UserShow", userID, <<>>,
                           TypedResp(o.m1, userID \in ExistingIds, TypedUser))
    IN  IF userID <= 0
        THEN Out(client, <<>>, NewToolResultError(
                 "Missing or invalid required argument: user_id (must be a positive number)"))
        ELSE IF withExtendedData
        THEN IF NewRequestFails(client)
             THEN Out(client, <<>>, NewToolResultError("Failed to create request for user %d"))
             ELSE IF raw.resp.err
             THEN Out(client, <<raw>>, NewToolResultError("Failed to get extended data for user %d"))
             ELSE IF raw.resp.status # StatusOK
             THEN Out(client, <<raw>>, NewToolResultError("Failed to get user %d: HTTP status %d"))
             ELSE IF raw.resp.body = <<>>
             THEN Out(client, <<raw>>, NewToolResultError("Failed to decode extended data for user %d"))
             ELSE IF ~o.marshal
             THEN Out(client, <<raw>>, ProtocolError("failed to marshal user %d data: %w", FALSE))
             ELSE Out(client, <<raw>>, NewToolResultText("User %d details (%s data):", raw.resp.body))
        ELSE IF typed.resp.err
             THEN Out(client, <<typed>>, NewToolResultError("Failed to get user %d"))
             ELSE IF ~o.marshal
             THEN Out(client, <<typed>>, ProtocolError("failed to marshal user %d data: %w", FALSE))
             ELSE Out(client, <<typed>>, NewToolResultText("User %d details (%s data):",
                        typed.resp.body))

handleGetUser(req, client, b, o) ==
    LET userID == ParseInt(req, "user_id", 0)
        withExtendedData == ParseBoolean(req, "with_extended_data", FALSE)
        raw == RawCall("GET /api/v1/users/%d", userID, <<>>, client,
                       RawResp(o.m1, userID \in ExistingIds, RawUser))
        typed == TypedCall("UserShow", userID, <<>>,
                           TypedResp(o.m1, userID \in ExistingIds, TypedUser))
    IN  IF userID <= 0
        THEN Out(client, <<>>, NewToolResultError(
                 "Missing or invalid required argument: user_id (must be a positive number)"))
        ELSE IF withExtendedData
        THEN IF NewRequestFails(client)
             THEN Out(client, <<>>, NewToolResultError("Failed to create request for user %d"))
             ELSE IF raw.resp.err
             THEN Out(client, <<raw>>, NewToolResultError("Failed to get extended data for user %d"))
             ELSE IF raw.resp.status # StatusOK
             THEN Out(client, <<raw>>, NewToolResultError("Failed to get user %d: HTTP status %d"))
             ELSE IF raw.resp.body = <<>>
             THEN Out(client, <<raw>>, NewToolResultError("Failed to decode extended data for user %d"))
             ELSE IF ~o.marshal
             THEN Out(client, <<raw>>, ProtocolError("failed to marshal user %d data: %w", FALSE))
             ELSE Out(client, <<raw>>, NewToolResultText("User %d details (%s data):", raw.resp.body))
        ELSE IF typed.resp.err
             THEN Out(client, <<typed>>, NewToolResultError("Failed to get user %d"))
             ELSE IF ~o.marshal
             THEN Out(client, <<typed>>, ProtocolError("failed to marshal user %d data: %w", FALSE))
             ELSE Out(client, <<typed>>, NewToolResultText("User %d details (%s data):",
                        <<[f \in StandardFields |-> typed.resp.body[1][f]]>>))

\* A mutant of handleSearchUsers: the caller's limit is ignored and the
\* default is always sent.
handleSearchUsers_FixedLimit(req, client, b, o) ==
    LET query == ParseString(req, "query", Empty)
        c1 == TypedCall("UserSearch", 0, [query |-> query, limit |-> DefaultLimit],
                        TypedResp(o.m1, TRUE, o.items))
    IN  IF query = Empty
        THEN Out(client, <<>>, NewToolResultError("Missing required argument: query"))
        ELSE IF c1.resp.err
        THEN Out(client, <<c1>>, NewToolResultError("Failed to search users"))
        ELSE IF ~o.marshal
        THEN Out(client, <<c1>>, NewToolResultError("Failed to format user search results"))
        ELSE Out(client, <<c1>>, NewToolResultText("User Search Results (%d found):", c1.resp.body))

handleSearchUsers(req, client, b, o) ==
    LET query == ParseString(req, "query", Empty)
        limit == ParseInt(req, "limit", DefaultLimit)
        c1 == TypedCall("UserSearch", 0, [query |-> query, limit |-> limit],
                        TypedResp(o.m1, TRUE, o.items))
    IN  IF query = Empty
        THEN Out(client, <<>>, NewToolResultError("Missing required argument: query"))
        ELSE IF c1.resp.err
        THEN Out(client, <<c1>>, NewToolResultError("Failed to search users"))
        ELSE IF ~o.marshal
        THEN Out(client, <<c1>>, NewToolResultError("Failed to format user search results"))
        ELSE Out(client, <<c1>>, NewToolResultText("User Search Results (%d found):", c1.resp.body))

\* A mutant of handleGetTicketArticles: a failed read is tried once more.
handleGetTicketArticles_Retry(req, client, b, o) ==
    LET ticketID == ParseInt(req, "ticket_id", 0)
        c1 == TypedCall("TicketArticleByTicket", ticketID, <<>>,
                        TypedResp(o.m1, ticketID \in ExistingIds, o.items))
    IN  IF ticketID <= 0
        THEN Out(client, <<>>, NewToolResultError(
                 "Missing or invalid required argument: ticket_id (must be a positive number)"))
        ELSE IF c1.resp.err
        THEN Out(client, <<c1, c1>>, NewToolResultError("Failed to get articles for ticket %d"))
        ELSE IF ~o.marshal
        THEN Out(client, <<c1>>, ProtocolError("failed to marshal articles for ticket %d: %w", FALSE))
        ELSE Out(client, <<c1>>, NewToolResultText("Articles for ticket %d:", c1.resp.body))

handleGetTicketArticles(req, client, b, o) ==
    LET ticketID == ParseInt(req, "ticket_id", 0)
        c1 == TypedCall("TicketArticleByTicket", ticketID, <<>>,
                        TypedResp(o.m1, ticketID \in ExistingIds, o.items))
    IN  IF ticketID <= 0
        THEN Out(client, <<>>, NewToolResultError(
                 "Missing or invalid required argument: ticket_id (must be a positive number)"))
        ELSE IF c1.resp.err
        THEN Out(client, <<c1>>, NewToolResultError("Failed to get articles for ticket %d"))
        ELSE IF ~o.marshal
        THEN Out(client, <<c1>>, ProtocolError("failed to marshal articles for ticket %d: %w", FALSE))
        ELSE Out(client, <<c1>>, NewToolResultText("Ticket %d Articles (%d found):", c1.resp.body))

\* A mutant of handleCloseTicket: the note is created before the ticket is
\* updated, whatever the update's outcome.
handleCloseTicket_NoteFirst(req, client, b, o) ==
    LET ticketID == ParseInt(req, "ticket_id", 0)
        note == ParseString(req, "note", Empty)
        updateData == [state |-> Str_closed]
        put == RawCall("PUT /api/v1/tickets/%d", ticketID, updateData, client,
                       RawResp(o.m1, ticketID \in ExistingIds,
                               [Ticket(b) EXCEPT !.state = Str_closed]))
        article == TicketArticle(ticketID, note, Str_note, TRUE, Empty,
                                 Str_TicketClosed, Empty, Empty, Empty)
        create == TypedCall("TicketArticleCreate", ticketID, article,
                            TypedResp(o.m2, ticketID \in ExistingIds, Created(article)))
        noted == IF note # Empty THEN <<create>> ELSE <<>>
    IN  IF ticketID <= 0
        THEN Out(client, <<>>, NewToolResultError(
                 "Missing or invalid required argument: ticket_id (must be a positive number)"))
        ELSE IF NewRequestFails(client)
        THEN Out(client, <<>>, NewToolResultError("Failed to create request to close ticket %d"))
        ELSE IF put.resp.err
        THEN Out(client, noted \o <<put>>, NewToolResultError("Failed to close ticket %d"))
        ELSE IF put.resp.status # StatusOK
        THEN Out(client, noted \o <<put>>,
                 NewToolResultError("Failed to close ticket %d: HTTP status %d"))
        ELSE IF put.resp.body = <<>>
        THEN Out(client, noted \o <<put>>, NewToolResultError(
                 "Failed to decode response when closing ticket %d"))
        ELSE Out(client, noted \o <<put>>,
                 NewToolResultText("Ticket %d closed successfully:",
                                   MarshalIndent(put.resp.body[1], o.marshal)))

\* A mutant of handleCloseTicket: a non-success status is returned as a
\* protocol-level error.
handleCloseTicket_HttpFault(req, client, b, o) ==
    LET ticketID == ParseInt(req, "ticket_id", 0)
        note == ParseString(req, "note", Empty)
        updateData == [state |-> Str_closed]
        put == RawCall("PUT /api/v1/tickets/%d", ticketID, updateData, client,
                       RawResp(o.m1, ticketID \in ExistingIds,
                               [Ticket(b) EXCEPT !.state = Str_closed]))
        article == TicketArticle(ticketID, note, Str_note, TRUE, Empty,
                                 Str_TicketClosed, Empty, Empty, Empty)
        create == TypedCall("TicketArticleCreate", ticketID, article,
                            TypedResp(o.m2, ticketID \in ExistingIds, Created(article)))
        noted == IF note # Empty THEN <<create>> ELSE <<>>
    IN  IF ticketID <= 0
        THEN Out(client, <<>>, NewToolResultError(
                 "Missing or invalid required argument: ticket_id (must be a positive number)"))
        ELSE IF NewRequestFails(client)
        THEN Out(client, <<>>, NewToolResultError("Failed to create request to close ticket %d"))
        ELSE IF put.resp.err
        THEN Out(client, <<put>>, NewToolResultError("Failed to close ticket %d"))
        ELSE IF put.resp.status # StatusOK
        THEN Out(client, <<put>>, ProtocolError("Failed to close ticket %d: HTTP status %d", FALSE))
        ELSE IF put.resp.body = <<>>
        THEN Out(client, <<put>>, NewToolResultError(
                 "Failed to decode response when closing ticket %d"))
        ELSE Out(client, <<put>> \o noted,
                 NewToolResultText("Ticket %d closed successfully:",
                                   MarshalIndent(put.resp.body[1], o.marshal)))

handleCloseTicket(req, client, b, o) ==
    LET ticketID == ParseInt(req, "ticket_id", 0)
        note == ParseString(req, "note", Empty)
        updateData == [state |-> Str_closed]
        put == RawCall("PUT /api/v1/tickets/%d", ticketID, updateData, client,
                       RawResp(o.m1, ticketID \in ExistingIds,
                               [Ticket(b) EXCEPT !.state = Str_closed]))
        article == TicketArticle(ticketID, note, Str_note, TRUE, Empty,
                                 Str_TicketClosed, Empty, Empty, Empty)
        create == TypedCall("TicketArticleCreate", ticketID, article,
                            TypedResp(o.m2, ticketID \in ExistingIds, Created(article)))
        noted == IF note # Empty THEN <<create>> ELSE <<>>
    IN  IF ticketID <= 0
        THEN Out(client, <<>>, NewToolResultError(
                 "Missing or invalid required argument: ticket_id (must be a positive number)"))
        ELSE IF NewRequestFails(client)
        THEN Out(client, <<>>, NewToolResultError("Failed to create request to close ticket %d"))
        ELSE IF put.resp.err
        THEN Out(client, <<put>>, NewToolResultError("Failed to close ticket %d"))
        ELSE IF put.resp.status # StatusOK
        THEN Out(client, <<put>>, NewToolResultError("Failed to close ticket %d: HTTP status %d"))
        ELSE IF put.resp.body = <<>>
        THEN Out(client, <<put>>, NewToolResultError(
                 "Failed to decode response when closing ticket %d"))
        ELSE Out(client, <<put>> \o noted,
                 NewToolResultText("Ticket %d closed successfully:",
                                   MarshalIndent(put.resp.body[1], o.marshal)))

\* A mutant of handleAssignTicket: the update sends the whole ticket with
\* the new owner instead of the owner alone.
handleAssignTicket_FullUpdate(req, client, b, o) ==
    LET ticketID == ParseInt(req, "ticket_id", 0)
        agentID == ParseInt(req, "agent_id", 0)
        note == ParseString(req, "note", Empty)
        updateData == [Ticket(b) EXCEPT !.owner_id = agentID]
        put == RawCall("PUT /api/v1/tickets/%d", ticketID, updateData, client,
                       RawResp(o.m1, ticketID \in ExistingIds,
                               [Ticket(b) EXCEPT !.owner_id = agentID]))
        article == TicketArticle(ticketID, note, Str_note, TRUE, Empty,
                                 Str_TicketAssigned, Empty, Empty, Empty)
        create == TypedCall("TicketArticleCreate", ticketID, article,
                            TypedResp(o.m2, ticketID \in ExistingIds, Created(article)))
        noted == IF note # Empty THEN <<create>> ELSE <<>>
    IN  IF ticketID <= 0 \/ agentID <= 0
        THEN Out(client, <<>>, NewToolResultError(
                 "Missing or invalid required arguments: ticket_id and agent_id (both must be positive numbers)"))
        ELSE IF NewRequestFails(client)
        THEN Out(client, <<>>, NewToolResultError("Failed to create request to assign ticket %d"))
        ELSE IF put.resp.err
        THEN Out(client, <<put>>, NewToolResultError("Failed to send request to assign ticket %d"))
        ELSE IF put.resp.status # StatusOK
        THEN Out(client, <<put>>, NewToolResultError("Failed to assign ticket %d: HTTP %d"))
        ELSE IF put.resp.body = <<>>
        THEN Out(client, <<put>>, NewToolResultError(
                 "Failed to decode response when assigning ticket %d"))
        ELSE Out(client, <<put>> \o noted,
                 NewToolResultText("Ticket %d assigned to agent %d successfully:",
                                   MarshalIndent(put.resp.body[1], o.marshal)))

\* A mutant of handleAssignTicket: a note that cannot be created fails the
\* request.
handleAssignTicket_NoteFatal(req, client, b, o) ==
    LET ticketID == ParseInt(req, "ticket_id", 0)
        agentID == ParseInt(req, "agent_id", 0)
        note == ParseString(req, "note", Empty)
        updateData == [owner_id |-> agentID]
        put == RawCall("PUT /api/v1/tickets/%d", ticketID, updateData, client,
                       RawResp(o.m1, ticketID \in ExistingIds,
                               [Ticket(b) EXCEPT !.owner_id = agentID]))
        article == TicketArticle(ticketID, note, Str_note, TRUE, Empty,
                                 Str_TicketAssigned, Empty, Empty, Empty)
        create == TypedCall("TicketArticleCreate", ticketID, article,
                            TypedResp(o.m2, ticketID \in ExistingIds, Created(article)))
        noted == IF note # Empty THEN <<create>> ELSE <<>>
    IN  IF ticketID <= 0 \/ agentID <= 0
        THEN Out(client, <<>>, NewToolResultError(
                 "Missing or invalid required arguments: ticket_id and agent_id (both must be positive numbers)"))
        ELSE IF NewRequestFails(client)
        THEN Out(client, <<>>, NewToolResultError("Failed to create request to assign ticket %d"))
        ELSE IF put.resp.err
        THEN Out(client, <<put>>, NewToolResultError("Failed to send request to assign ticket %d"))
        ELSE IF put.resp.status # StatusOK
        THEN Out(client, <<put>>, NewToolResultError("Failed to assign ticket %d: HTTP %d"))
        ELSE IF put.resp.body = <<>>
        THEN Out(client, <<put>>, NewToolResultError(
                 "Failed to decode response when assigning ticket %d"))
        ELSE IF note # Empty /\ create.resp.err
        THEN Out(client, <<put, create>>, NewToolResultError("Failed to add assignment note"))
        ELSE Out(client, <<put>> \o noted,
                 NewToolResultText("Ticket %d assigned to agent %d successfully:",
                                   MarshalIndent(put.resp.body[1], o.marshal)))

handleAssignTicket(req, client, b, o) ==
    LET ticketID == ParseInt(req, "ticket_id", 0)
        agentID == ParseInt(req, "agent_id", 0)
        note == ParseString(req, "note", Empty)
        updateData == [owner_id |-> agentID]
        put == RawCall("PUT /api/v1/tickets/%d", ticketID, updateData, client,
                       RawResp(o.m1, ticketID \in ExistingIds,
                               [Ticket(b) EXCEPT !.owner_id = agentID]))
        article == TicketArticle(ticketID, note, Str_note, TRUE, Empty,
                                 Str_TicketAssigned, Empty, Empty, Empty)
        create == TypedCall("TicketArticleCreate", ticketID, article,
                            TypedResp(o.m2, ticketID \in ExistingIds, Created(article)))
        noted == IF note # Empty THEN <<create>> ELSE <<>>
    IN  IF ticketID <= 0 \/ agentID <= 0
        THEN Out(client, <<>>, NewToolResultError(
                 "Missing or invalid required arguments: ticket_id and agent_id (both must be positive numbers)"))
        ELSE IF NewRequestFails(client)
        THEN Out(client, <<>>, NewToolResultError("Failed to create request to assign ticket %d"))
        ELSE IF put.resp.err
        THEN Out(client, <<put>>, NewToolResultError("Failed to send request to assign ticket %d"))
        ELSE IF put.resp.status # StatusOK
        THEN Out(client, <<put>>, NewToolResultError("Failed to assign ticket %d: HTTP %d"))
        ELSE IF put.resp.body = <<>>
        THEN Out(client, <<put>>, NewToolResultError(
                 "Failed to decode response when assigning ticket %d"))
        ELSE Out(client, <<put>> \o noted,
                 NewToolResultText("Ticket %d assigned to agent %d successfully:",
                                   MarshalIndent(put.resp.body[1], o.marshal)))

\* A mutant of handleAddTagToTicket: every answer of the association call
\* counts as added, whatever its status.
handleAddTagToTicket_AnyStatus(req, client, b, o) ==
    LET ticketID == ParseInt(req, "ticket_id", 0)
        tagName == ParseString(req, "tag_name", Empty)
        tagData == [object |-> Str_Ticket, o_id |-> ticketID, item |-> tagName]
        post == RawCall("POST /api/v1/tags/add", ticketID, tagData, client,
                        RawResp(o.m1, ticketID \in ExistingIds, TRUE))
        added == ~post.resp.err
        verify == TypedCall("TicketTagByTicket", ticketID, <<>>,
                            TypedResp(o.m2, ticketID \in ExistingIds, o.items))
        currentTags == verify.resp.body[1]
        tagFound == \E i \in 1..Len(currentTags) : currentTags[i].Name = tagName
    IN  IF ticketID <= 0 \/ tagName = Empty
        THEN Out(client, <<>>, NewToolResultError(
                 "Missing or invalid required arguments: ticket_id (must be positive) and tag_name (must not be empty)"))
        ELSE IF Len(tagName) > MaxTagLen
        THEN Out(client, <<>>, NewToolResultError("Tag name is too long (maximum 100 characters)"))
        ELSE IF NewRequestFails(client)
        THEN Out(client, <<>>, NewToolResultError("Failed to add tag '%s' to ticket %d"))
        ELSE IF ~added
        THEN Out(client, <<post>>, NewToolResultError("Failed to add tag '%s' to ticket %d"))
        ELSE IF verify.resp.err
        THEN Out(client, <<post, verify>>,
                 NewToolResultText("Tag '%s' added to ticket %d (verification failed: %v)", <<>>))
        ELSE IF tagFound
        THEN Out(client, <<post, verify>>,
                 NewToolResultText("Tag '%s' successfully added to ticket %d (verified)", <<>>))
        ELSE Out(client, <<post, verify>>,
                 NewToolResultText(
                     "Tag '%s' added to ticket %d (not found in verification - may need time to propagate)",
                     <<>>))

\* A mutant of handleAddTagToTicket: a tag missing from the verification
\* list is reported as an error.
handleAddTagToTicket_StrictVerify(req, client, b, o) ==
    LET ticketID == ParseInt(req, "ticket_id", 0)
        tagName == ParseString(req, "tag_name", Empty)
        tagData == [object |-> Str_Ticket, o_id |-> ticketID, item |-> tagName]
        post == RawCall("POST /api/v1/tags/add", ticketID, tagData, client,
                        RawResp(o.m1, ticketID \in ExistingIds, TRUE))
        added == ~post.resp.err
                 /\ (post.resp.status = StatusCreated \/ post.resp.status = StatusOK)
        verify == TypedCall("TicketTagByTicket", ticketID, <<>>,
                            TypedResp(o.m2, ticketID \in ExistingIds, o.items))
        currentTags == verify.resp.body[1]
        tagFound == \E i \in 1..Len(currentTags) : currentTags[i].Name = tagName
    IN  IF ticketID <= 0 \/ tagName = Empty
        THEN Out(client, <<>>, NewToolResultError(
                 "Missing or invalid required arguments: ticket_id (must be positive) and tag_name (must not be empty)"))
        ELSE IF Len(tagName) > MaxTagLen
        THEN Out(client, <<>>, NewToolResultError("Tag name is too long (maximum 100 characters)"))
        ELSE IF NewRequestFails(client)
        THEN Out(client, <<>>, NewToolResultError("Failed to add tag '%s' to ticket %d"))
        ELSE IF ~added
        THEN Out(client, <<post>>, NewToolResultError("Failed to add tag '%s' to ticket %d"))
        ELSE IF verify.resp.err
        THEN Out(client, <<post, verify>>,
                 NewToolResultText("Tag '%s' added to ticket %d (verification failed: %v)", <<>>))
        ELSE IF tagFound
        THEN Out(client, <<post, verify>>,
                 NewToolResultText("Tag '%s' successfully added to ticket %d (verified)", <<>>))
        ELSE Out(client, <<post, verify>>,
                 NewToolResultError("Tag '%s' was not added to ticket %d"))

\* A mutant of handleAddTagToTicket: an association call that fails is
\* attempted a second time.
handleAddTagToTicket_RetryAdd(req, client, b, o) ==
    LET ticketID == ParseInt(req, "ticket_id", 0)
        tagName == ParseString(req, "tag_name", Empty)
        tagData == [object |-> Str_Ticket, o_id |-> ticketID, item |-> tagName]
        post == RawCall("POST /api/v1/tags/add", ticketID, tagData, client,
                        RawResp(o.m1, ticketID \in ExistingIds, TRUE))
        added == ~post.resp.err
                 /\ (post.resp.status = StatusCreated \/ post.resp.status = StatusOK)
        verify == TypedCall("TicketTagByTicket", ticketID, <<>>,
                            TypedResp(o.m2, ticketID \in ExistingIds, o.items))
        currentTags == verify.resp.body[1]
        tagFound == \E i \in 1..Len(currentTags) : currentTags[i].Name = tagName
    IN  IF ticketID <= 0 \/ tagName = Empty
        THEN Out(client, <<>>, NewToolResultError(
                 "Missing or invalid required arguments: ticket_id (must be positive) and tag_name (must not be empty)"))
        ELSE IF Len(tagName) > MaxTagLen
        THEN Out(client, <<>>, NewToolResultError("Tag name is too long (maximum 100 characters)"))
        ELSE IF NewRequestFails(client)
        THEN Out(client, <<>>, NewToolResultError("Failed to add tag '%s' to ticket %d"))
        ELSE IF ~added
        THEN Out(client, <<post, post>>, NewToolResultError("Failed to add tag '%s' to ticket %d"))
        ELSE IF verify.resp.err
        THEN Out(client, <<post, verify>>,
                 NewToolResultText("Tag '%s' added to ticket %d (verification failed: %v)", <<>>))
        ELSE IF tagFound
        THEN Out(client, <<post, verify>>,
                 NewToolResultText("Tag '%s' successfully added to ticket %d (verified)", <<>>))
        ELSE Out(client, <<post, verify>>,
                 NewToolResultText(
                     "Tag '%s' added to ticket %d (not found in verification - may need time to propagate)",
                     <<>>))

handleAddTagToTicket(req, client, b, o) ==
    LET ticketID == ParseInt(req, "ticket_id", 0)
        tagName == ParseString(req, "tag_name", Empty)
        tagData == [object |-> Str_Ticket, o_id |-> ticketID, item |-> tagName]
        post == RawCall("POST /api/v1/tags/add", ticketID, tagData, client,
                        RawResp(o.m1, ticketID \in ExistingIds, TRUE))
        added == ~post.resp.err
                 /\ (post.resp.status = StatusCreated \/ post.resp.status = StatusOK)
        verify == TypedCall("TicketTagByTicket", ticketID, <<>>,
                            TypedResp(o.m2, ticketID \in ExistingIds, o.items))
        currentTags == verify.resp.body[1]
        tagFound == \E i \in 1..Len(currentTags) : currentTags[i].Name = tagName
    IN  IF ticketID <= 0 \/ tagName = Empty
        THEN Out(client, <<>>, NewToolResultError(
                 "Missing or invalid required arguments: ticket_id (must be positive) and tag_name (must not be empty)"))
        ELSE IF Len(tagName) > MaxTagLen
        THEN Out(client, <<>>, NewToolResultError("Tag name is too long (maximum 100 characters)"))
        ELSE IF NewRequestFails(client)
        THEN Out(client, <<>>, NewToolResultError("Failed to add tag '%s' to ticket %d"))
        ELSE IF ~added
        THEN Out(client, <<post>>, NewToolResultError("Failed to add tag '%s' to ticket %d"))
        ELSE IF verify.resp.err
        THEN Out(client, <<post, verify>>,
                 NewToolResultText("Tag '%s' added to ticket %d (verification failed: %v)", <<>>))
        ELSE IF tagFound
        THEN Out(client, <<post, verify>>,
                 NewToolResultText("Tag '%s' successfully added to ticket %d (verified)", <<>>))
        ELSE Out(client, <<post, verify>>,
                 NewToolResultText(
                     "Tag '%s' added to ticket %d (not found in verification - may need time to propagate)",
                     <<>>))

handleGetTicketTags(req, client, b, o) ==
    LET ticketID == ParseInt(req, "ticket_id", 0)
        c1 == TypedCall("TicketTagByTicket", ticketID, <<>>,
                        TypedResp(o.m1, ticketID \in ExistingIds, o.items))
    IN  IF ticketID <= 0
        THEN Out(client, <<>>, NewToolResultError(
                 "Missing or invalid required argument: ticket_id (must be positive)"))
        ELSE IF c1.resp.err
        THEN Out(client, <<c1>>, NewToolResultError("Failed to get tags for ticket %d"))
        ELSE IF Len(c1.resp.body[1]) = 0
        THEN Out(client, <<c1>>, NewToolResultText("No tags found for ticket %d", <<>>))
        ELSE IF ~o.marshal
        THEN Out(client, <<c1>>, NewToolResultError("Failed to format tag results"))
        ELSE Out(client, <<c1>>, NewToolResultText("Tags for ticket %d (%d found):", c1.resp.body))

handleListAllTags(req, client, b, o) ==
    LET c1 == TypedCall("TagAdminList", 0, <<>>, TypedResp(o.m1, TRUE, o.items))
    IN  IF c1.resp.err
        THEN Out(client, <<c1>>, NewToolResultError("Failed to list all tags"))
        ELSE IF Len(c1.resp.body[1]) = 0
        THEN Out(client, <<c1>>, NewToolResultText("No tags found in the system", <<>>))
        ELSE IF ~o.marshal
        THEN Out(client, <<c1>>, NewToolResultError("Failed to format tag list"))
        ELSE Out(client, <<c1>>, NewToolResultText("All tags in system (%d found):", c1.resp.body))

\* A mutant of handleSearchTags: the whole catalogue is fetched and
\* filtered by the handler.
handleSearchTags_ClientSide(req, client, b, o) ==
    LET searchTerm == ParseString(req, "search_term", Empty)
        c1 == TypedCall("TagAdminList", 0, <<>>, TypedResp(o.m1, TRUE, o.items))
        tags == SelectSeq(c1.resp.body[1],
                          LAMBDA tag : containsIgnoreCase(tag.Name, searchTerm))
    IN  IF searchTerm = Empty
        THEN Out(client, <<>>, NewToolResultError("Missing required argument: search_term"))
        ELSE IF c1.resp.err
        THEN Out(client, <<c1>>, NewToolResultError("Failed to search tags with term '%s'"))
        ELSE IF Len(tags) = 0
        THEN Out(client, <<c1>>, NewToolResultText("No tags found matching search term '%s'", <<>>))
        ELSE IF ~o.marshal
        THEN Out(client, <<c1>>, NewToolResultError("Failed to format tag search results"))
        ELSE Out(client, <<c1>>, NewToolResultText("Tags matching '%s' (%d found):", <<tags>>))

handleSearchTags(req, client, b, o) ==
    LET searchTerm == ParseString(req, "search_term", Empty)
        c1 == TypedCall("TagSearch", 0, searchTerm, TypedResp(o.m1, TRUE, o.items))
    IN  IF searchTerm = Empty
        THEN Out(client, <<>>, NewToolResultError("Missing required argument: search_term"))
        ELSE IF c1.resp.err
        THEN Out(client, <<c1>>, NewToolResultError("Failed to search tags with term '%s'"))
        ELSE IF Len(c1.resp.body[1]) = 0
        THEN Out(client, <<c1>>, NewToolResultText("No tags found matching search term '%s'", <<>>))
        ELSE IF ~o.marshal
        THEN Out(client, <<c1>>, NewToolResultError("Failed to format tag search results"))
        ELSE Out(client, <<c1>>, NewToolResultText("Tags matching '%s' (%d found):", c1.resp.body))

handleListTextModules(req, client, b, o) ==
    LET get == RawCall("GET /api/v1/text_modules", 0, <<>>, client,
                       RawResp(o.m1, TRUE, o.items))
    IN  IF NewRequestFails(client)
        THEN Out(client, <<>>, NewToolResultError("Failed to create request for text modules"))
        ELSE IF get.resp.err
        THEN Out(client, <<get>>, NewToolResultError("Failed to fetch text modules"))
        ELSE IF get.resp.status # StatusOK
        THEN Out(client, <<get>>, NewToolResultError("Failed to fetch text modules: HTTP %d"))
        ELSE IF get.resp.body = <<>>
        THEN Out(client, <<get>>, NewToolResultError("Failed to decode text modules response"))
        ELSE IF Len(get.resp.body[1]) = 0
        THEN Out(client, <<get>>, NewToolResultText("No text modules found", <<>>))
        ELSE IF ~o.marshal
        THEN Out(client, <<get>>, NewToolResultError("Failed to format text modules"))
        ELSE Out(client, <<get>>, NewToolResultText("Text modules (%d found):", get.resp.body))

handleGetTextModule(req, client, b, o) ==
    LET textModuleID == ParseInt(req, "text_module_id", 0)
        exists == textModuleID \in 1..Len(o.items)
        get == RawCall("GET /api/v1/text_modules/%d", textModuleID, <<>>, client,
                       RawResp(o.m1, exists,
                               IF exists THEN o.items[textModuleID] ELSE <<>>))
    IN  IF textModuleID <= 0
        THEN Out(client, <<>>, NewToolResultError(
                 "Missing or invalid required argument: text_module_id (must be positive)"))
        ELSE IF NewRequestFails(client)
        THEN Out(client, <<>>, NewToolResultError("Failed to create request for text module %d"))
        ELSE IF get.resp.err
        THEN Out(client, <<get>>, NewToolResultError("Failed to fetch text module %d"))
        ELSE IF get.resp.status = StatusNotFound
        THEN Out(client, <<get>>, NewToolResultError("Text module %d not found"))
        ELSE IF get.resp.status # StatusOK
        THEN Out(client, <<get>>, NewToolResultError("Failed to fetch text module %d: HTTP %d"))
        ELSE IF get.resp.body = <<>>
        THEN Out(client, <<get>>, NewToolResultError("Failed to decode text module %d response"))
        ELSE IF ~o.marshal
        THEN Out(client, <<get>>, NewToolResultError("Failed to format text module"))
        ELSE Out(client, <<get>>, NewToolResultText("Text module %d:", get.resp.body))

\* The filter loop of handleSearchTextModules (main.go:1127-1136).
MatchingModules(allTextModules, searchTerm) ==
    SelectSeq(allTextModules,
              LAMBDA module : \/ containsIgnoreCase(module.Name, searchTerm)
                              \/ containsIgnoreCase(module.Keywords, searchTerm)
                              \/ containsIgnoreCase(module.Content, searchTerm))

\* A mutant of handleSearchTextModules: the search term is not checked.
handleSearchTextModules_NoTermCheck(req, client, b, o) ==
    LET searchTerm == ParseString(req, "search_term", Empty)
        get == RawCall("GET /api/v1/text_modules", 0, <<>>, client,
                       RawResp(o.m1, TRUE, o.items))
        matchingModules == MatchingModules(get.resp.body[1], searchTerm)
    IN  IF NewRequestFails(client)
        THEN Out(client, <<>>, NewToolResultError("Failed to create request for text modules search"))
        ELSE IF get.resp.err
        THEN Out(client, <<get>>, NewToolResultError("Failed to fetch text modules for search"))
        ELSE IF get.resp.status # StatusOK
        THEN Out(client, <<get>>, NewToolResultError("Failed to fetch text modules for search: HTTP %d"))
        ELSE IF get.resp.body = <<>>
        THEN Out(client, <<get>>, NewToolResultError("Failed to decode text modules search response"))
        ELSE IF Len(matchingModules) = 0
        THEN Out(client, <<get>>, NewToolResultText(
                 "No text modules found matching search term '%s'", <<>>))
        ELSE IF ~o.marshal
        THEN Out(client, <<get>>, NewToolResultError("Failed to format text modules search results"))
        ELSE Out(client, <<get>>, NewToolResultText("Text modules matching '%s' (%d found):",
                                            <<matchingModules>>))

handleSearchTextModules(req, client, b, o) ==
    LET searchTerm == ParseString(req, "search_term", Empty)
        get == RawCall("GET /api/v1/text_modules", 0, <<>>, client,
                       RawResp(o.m1, TRUE, o.items))
        matchingModules == MatchingModules(get.resp.body[1], searchTerm)
    IN  IF searchTerm = Empty
        THEN Out(client, <<>>, NewToolResultError("Missing required argument: search_term"))
        ELSE IF NewRequestFails(client)
        THEN Out(client, <<>>, NewToolResultError("Failed to create request for text modules search"))
        ELSE IF get.resp.err
        THEN Out(client, <<get>>, NewToolResultError("Failed to fetch text modules for search"))
        ELSE IF get.resp.status # StatusOK
        THEN Out(client, <<get>>, NewToolResultError("Failed to fetch text modules for search: HTTP %d"))
        ELSE IF get.resp.body = <<>>
        THEN Out(client, <<get>>, NewToolResultError("Failed to decode text modules search response"))
        ELSE IF Len(matchingModules) = 0
        THEN Out(client, <<get>>, NewToolResultText(
                 "No text modules found matching search term '%s'", <<>>))
        ELSE IF ~o.marshal
        THEN Out(client, <<get>>, NewToolResultError("Failed to format text modules search results"))
        ELSE Out(client, <<get>>, NewToolResultText("Text modules matching '%s' (%d found):",
                                            <<matchingModules>>))

(***************************************************************************)
(* main (main.go:40-83): both environment inputs must be non-empty, then   *)
(* the client is built and one identity check (UserMe) must succeed;       *)
(* log.Fatal ends the process otherwise.                                   *)
(***************************************************************************)
NilClient == [Url |-> "", Username |-> "", Password |-> "", Token |-> "", OAuth |-> ""]

\* A mutant of main: the outcome of the identity check is ignored.
main_NoIdentityCheck(e, mode) ==
    LET client == [NilClient EXCEPT !.Url = e.ZAMMAD_URL, !.Token = e.ZAMMAD_TOKEN]
        userMe == TypedCall("UserMe", 0, <<>>, TypedResp(mode, TRUE, TypedUser))
    IN  IF e.ZAMMAD_URL = "" \/ e.ZAMMAD_TOKEN = ""
        THEN [phase |-> "exited", client |-> NilClient, calls |-> <<>>]
        ELSE [phase |-> "serving", client |-> client, calls |-> <<userMe>>]

main(e, mode) ==
    LET client == [NilClient EXCEPT !.Url = e.ZAMMAD_URL, !.Token = e.ZAMMAD_TOKEN]
        userMe == TypedCall("UserMe", 0, <<>>, TypedResp(mode, TRUE, TypedUser))
    IN  IF e.ZAMMAD_URL = "" \/ e.ZAMMAD_TOKEN = ""
        THEN [phase |-> "exited", client |-> NilClient, calls |-> <<>>]
        ELSE IF userMe.resp.err
        THEN [phase |-> "exited", client |-> client, calls |-> <<userMe>>]
        ELSE [phase |-> "serving", client |-> client, calls |-> <<userMe>>]

\* The effect of a request's calls on the backend: an update of the ticket
\* the backend holds, addressed by its id in the request's URL, that the
\* backend answered with status 200 has been applied.  An update addressed
\* to another id leaves the ticket alone.
BackendAfter(b, cs) ==
    IF /\ Len(cs) > 0
       /\ cs[1].op = "PUT /api/v1/tickets/%d"
       /\ cs[1].id \in ExistingIds
       /\ ~cs[1].resp.err
       /\ cs[1].resp.status = StatusOK
    THEN IF "state" \in DOMAIN cs[1].payload
         THEN [b EXCEPT !.state = cs[1].payload.state]
         ELSE [b EXCEPT !.owner_id = cs[1].payload.owner_id]
    ELSE b

(***************************************************************************)
(* The inputs the actions draw from.                                       *)
(***************************************************************************)
Str_y == <<121>>                      \* "y"
Str_P == <<80>>                       \* "P"
Str_Jam == <<74, 97, 109>>            \* "Jam"
Str_aB == <<97, 66>>                  \* "aB"
Str_xab == <<120, 97, 98>>            \* "xab"
Str_AB == <<65, 66>>                  \* "AB"
Str_b == <<98>>                       \* "b"
Str_at == <<64>>                      \* "@", the byte before 'A'
Str_grave == <<96>>                   \* "`", the byte before 'a'

Name100 == [i \in 1..MaxTagLen |-> 116]          \* "t" repeated 100 times
Name101 == [i \in 1..(MaxTagLen + 1) |-> 116]    \* "t" repeated 101 times

Ids == (0 - 1)..MaxId
Titles == {Str_P, Str_Jam}
TicketStates == {Str_open, Str_closed}

\* strconv.Itoa for the identifiers of the model (one digit).
Itoa(i) == IF i < 0 THEN <<45, 48 - i>> ELSE <<48 + i>>

UriStrings == {Empty, Str_x, <<49, 120>>, <<43, 49>>} \cup {Itoa(i) : i \in Ids}
UriValues == {[isString |-> FALSE, v |-> Empty]}
             \cup {[isString |-> TRUE, v |-> s] : s \in UriStrings}

StrArgs == Opt({Empty, Str_x})
IdArgs == Opt(Ids)
BoolArgs == Opt(BOOLEAN)
LimitArgs == Opt({0, MaxItems})
\* A limit sent to a tool that declares none: absent, or one entry.
ExtraLimitArgs == Opt({1})
\* 51 times the letter e with acute accent, two bytes each in UTF-8: 51
\* characters in 102 bytes.
NameAccented == [i \in 1..(MaxTagLen + 2) |-> IF i % 2 = 1 THEN 195 ELSE 169]

TagNameArgs == Opt({Empty, Str_x, Name100, Name101, NameAccented})
SearchTerms == Opt({Empty, Str_AB, Str_b, Str_xab \o Str_x, Str_at})

TypedModes == {"ok", "fail"}
RawModes == {"ok", "neterr", "http500", "badjson"}
TagAddModes == RawModes \cup {"created"}

\* Sequences over S of length at most n.
RECURSIVE SeqsUpTo(_, _)
SeqsUpTo(S, n) ==
    IF n = 0 THEN {<<>>}
    ELSE LET shorter == SeqsUpTo(S, n - 1)
         IN  shorter \cup {Append(q, x) : q \in shorter, x \in S}

Tags == {[Name |-> n] : n \in {Str_x, Str_y, Name100}}
TagLists == SeqsUpTo(Tags, MaxItems)

\* Text modules that carry text in at most one of the three searched fields.
ModuleContents ==
    {[Name |-> Empty, Keywords |-> Empty, Content |-> Empty],
     [Name |-> Str_aB, Keywords |-> Empty, Content |-> Empty],
     [Name |-> Empty, Keywords |-> Str_b, Content |-> Empty],
     [Name |-> Empty, Keywords |-> Empty, Content |-> Str_xab],
     [Name |-> Empty, Keywords |-> Empty, Content |-> Str_grave]}

\* A collection of text modules: the backend numbers them in order.
Numbered(q) ==
    [i \in 1..Len(q) |->
        [ID |-> i, Name |-> q[i].Name, Keywords |-> q[i].Keywords,
         Content |-> q[i].Content]]
ModuleLists == {Numbered(q) : q \in SeqsUpTo(ModuleContents, MaxItems)}

\* What a search or list call of tickets, users or articles returns: the
\* identifiers of the entries.
IdLists == SeqsUpTo(1..MaxItems, MaxItems)

Request(name, args) == [name |-> name, args |-> args]
NoRequest == Request("idle", <<>>)

(***************************************************************************)
(* The state machine.                                                      *)
(***************************************************************************)
\* The goroutines the transport may run handlers on, and the state of one
\* that handles nothing.
Workers == {"g1", "g2"}
NoJob == [status |-> "free"]
NoJobs == [w \in Workers |-> NoJob]

Backends == [title : Titles, state : TicketStates, owner_id : 0..MaxId]

Init ==
    /\ phase = "start"
    /\ env \in [ZAMMAD_URL : {"", "http://zammad"}, ZAMMAD_TOKEN : {"", "token"}]
    /\ zammadClient = NilClient
    /\ backend \in Backends
    /\ request = NoRequest
    /\ calls = <<>>
    /\ result = NoResult
    /\ encoder = TRUE
    /\ inflight = NoJobs

Main ==
    /\ phase = "start"
    /\ \E mode \in TypedModes :
         LET m == main(env, mode)
         IN  /\ phase' = m.phase
             /\ zammadClient' = m.client
             /\ calls' = m.calls
    /\ UNCHANGED <<env, backend, request, result, encoder, inflight>>

\* The server takes a request only after startup and one at a time.
Idle == phase = "serving" /\ request = NoRequest

\* A request is dispatched to its handler, which runs to completion.
Serve(req, o, out) ==
    /\ request' = req
    /\ calls' = out.calls
    /\ result' = out.result
    /\ encoder' = o.marshal
    /\ backend' = BackendAfter(backend, out.calls)
    /\ zammadClient' = out.client
    /\ UNCHANGED <<phase, env, inflight>>

\* The result is written to the transport and the server waits for the
\* next request (server.ServeStdio).
Deliver ==
    /\ phase = "serving"
    /\ request # NoRequest
    /\ request' = NoRequest
    /\ calls' = <<>>
    /\ result' = NoResult
    /\ encoder' = TRUE
    /\ UNCHANGED <<phase, env, zammadClient, backend, inflight>>

ListTickets ==
    /\ Idle
    /\ \E m1 \in TypedModes, mj \in BOOLEAN :
           LET req == Request("zammad://tickets", <<>>)
           IN  Serve(req, Oracle(m1, "ok", mj, <<>>),
                     handleListTickets(req, zammadClient, backend,
                         Oracle(m1, "ok", mj, <<>>)))

ShowTicket ==
    /\ Idle
    /\ \E id \in Opt(UriValues), m1 \in TypedModes, mj \in BOOLEAN :
           LET req == Request("zammad://tickets/{ticket_id}", Arg("ticket_id", id))
           IN  Serve(req, Oracle(m1, "ok", mj, <<>>),
                     handleShowTicket(req, zammadClient, backend,
                         Oracle(m1, "ok", mj, <<>>)))

ListUsers ==
    /\ Idle
    /\ \E m1 \in TypedModes, mj \in BOOLEAN :
           LET req == Request("zammad://users", <<>>)
           IN  Serve(req, Oracle(m1, "ok", mj, <<>>),
                     handleListUsers(req, zammadClient, backend,
                         Oracle(m1, "ok", mj, <<>>)))

ShowUser ==
    /\ Idle
    /\ \E id \in Opt(UriValues), m1 \in TypedModes, mj \in BOOLEAN :
           LET req == Request("zammad://users/{user_id}", Arg("user_id", id))
           IN  Serve(req, Oracle(m1, "ok", mj, <<>>),
                     handleShowUser(req, zammadClient, backend,
                         Oracle(m1, "ok", mj, <<>>)))

CreateTicket ==
    /\ Idle
    /\ \E title \in StrArgs, group \in StrArgs, customer \in StrArgs, body \in StrArgs,
          type \in Opt({Str_email}), internal \in BoolArgs,
          m1 \in TypedModes, mj \in BOOLEAN :
           LET req == Request("create_ticket",
                              Arg("title", title) \o Arg("group", group)
                              \o Arg("customer", customer) \o Arg("body", body)
                              \o Arg("type", type) \o Arg("internal", internal))
           IN  Serve(req, Oracle(m1, "ok", mj, <<>>),
                     handleCreateTicket(req, zammadClient, backend,
                         Oracle(m1, "ok", mj, <<>>)))

SearchTickets ==
    /\ Idle
    /\ \E query \in StrArgs, limit \in LimitArgs, items \in IdLists,
          m1 \in TypedModes, mj \in BOOLEAN :
           LET req == Request("search_tickets", Arg("query", query) \o Arg("limit", limit))
           IN  Serve(req, Oracle(m1, "ok", mj, items),
                     handleSearchTickets(req, zammadClient, backend,
                         Oracle(m1, "ok", mj, items)))

AddNoteToTicket ==
    /\ Idle
    /\ \E id \in IdArgs, body \in StrArgs, internal \in BoolArgs,
          m1 \in TypedModes, mj \in BOOLEAN :
           LET req == Request("add_note_to_ticket",
                              Arg("ticket_id", id) \o Arg("body", body)
                              \o Arg("internal", internal))
           IN  Serve(req, Oracle(m1, "ok", mj, <<>>),
                     handleAddNoteToTicket(req, zammadClient, backend,
                         Oracle(m1, "ok", mj, <<>>)))

ReplyToTicket ==
    /\ Idle
    /\ \E id \in IdArgs, body \in StrArgs, subject \in StrArgs, to \in Opt({Str_x}),
          internal \in BoolArgs, m1 \in TypedModes, m2 \in TypedModes, mj \in BOOLEAN :
           LET req == Request("reply_to_ticket",
                              Arg("ticket_id", id) \o Arg("body", body)
                              \o Arg("to", to) \o Arg("subject", subject)
                              \o Arg("internal", internal))
           IN  Serve(req, Oracle(m1, m2, mj, <<>>),
                     handleReplyToTicket(req, zammadClient, backend,
                         Oracle(m1, m2, mj, <<>>)))

GetTicket ==
    /\ Idle
    /\ \E id \in IdArgs, m1 \in TypedModes, mj \in BOOLEAN :
           LET req == Request("get_ticket", Arg("ticket_id", id))
           IN  Serve(req, Oracle(m1, "ok", mj, <<>>),
                     handleGetTicket(req, zammadClient, backend,
                         Oracle(m1, "ok", mj, <<>>)))

GetUser ==
    /\ Idle
    /\ \E id \in IdArgs, ext \in BoolArgs, m1 \in RawModes, mj \in BOOLEAN :
           LET req == Request("get_user",
                              Arg("user_id", id) \o Arg("with_extended_data", ext))
           IN  Serve(req, Oracle(m1, "ok", mj, <<>>),
                     handleGetUser(req, zammadClient, backend,
                         Oracle(m1, "ok", mj, <<>>)))

SearchUsers ==
    /\ Idle
    /\ \E query \in StrArgs, limit \in LimitArgs, items \in IdLists,
          m1 \in TypedModes, mj \in BOOLEAN :
           LET req == Request("search_users", Arg("query", query) \o Arg("limit", limit))
           IN  Serve(req, Oracle(m1, "ok", mj, items),
                     handleSearchUsers(req, zammadClient, backend,
                         Oracle(m1, "ok", mj, items)))

GetTicketArticles ==
    /\ Idle
    /\ \E id \in IdArgs, items \in IdLists, m1 \in TypedModes, mj \in BOOLEAN :
           LET req == Request("get_ticket_articles", Arg("ticket_id", id))
           IN  Serve(req, Oracle(m1, "ok", mj, items),
                     handleGetTicketArticles(req, zammadClient, backend,
                         Oracle(m1, "ok", mj, items)))

CloseTicket ==
    /\ Idle
    /\ \E id \in IdArgs, note \in StrArgs, m1 \in RawModes, m2 \in TypedModes,
          mj \in BOOLEAN :
           LET req == Request("close_ticket", Arg("ticket_id", id) \o Arg("note", note))
           IN  Serve(req, Oracle(m1, m2, mj, <<>>),
                     handleCloseTicket(req, zammadClient, backend,
                         Oracle(m1, m2, mj, <<>>)))

AssignTicket ==
    /\ Idle
    /\ \E id \in IdArgs, agent \in IdArgs, note \in StrArgs, m1 \in RawModes,
          m2 \in TypedModes, mj \in BOOLEAN :
           LET req == Request("assign_ticket",
                              Arg("ticket_id", id) \o Arg("agent_id", agent)
                              \o Arg("note", note))
           IN  Serve(req, Oracle(m1, m2, mj, <<>>),
                     handleAssignTicket(req, zammadClient, backend,
                         Oracle(m1, m2, mj, <<>>)))

AddTagToTicket ==
    /\ Idle
    /\ \E id \in IdArgs, tag \in TagNameArgs, items \in TagLists, m1 \in TagAddModes,
          m2 \in TypedModes :
           LET req == Request("add_tag_to_ticket",
                              Arg("ticket_id", id) \o Arg("tag_name", tag))
           IN  Serve(req, Oracle(m1, m2, TRUE, items),
                     handleAddTagToTicket(req, zammadClient, backend,
                         Oracle(m1, m2, TRUE, items)))

GetTicketTags ==
    /\ Idle
    /\ \E id \in IdArgs, items \in TagLists, m1 \in TypedModes, mj \in BOOLEAN :
           LET req == Request("get_ticket_tags", Arg("ticket_id", id))
           IN  Serve(req, Oracle(m1, "ok", mj, items),
                     handleGetTicketTags(req, zammadClient, backend,
                         Oracle(m1, "ok", mj, items)))

ListAllTags ==
    /\ Idle
    /\ \E items \in TagLists, m1 \in TypedModes, mj \in BOOLEAN :
           LET req == Request("list_all_tags", <<>>)
           IN  Serve(req, Oracle(m1, "ok", mj, items),
                     handleListAllTags(req, zammadClient, backend,
                         Oracle(m1, "ok", mj, items)))

SearchTags ==
    /\ Idle
    /\ \E term \in SearchTerms, limit \in ExtraLimitArgs, items \in TagLists,
          m1 \in TypedModes, mj \in BOOLEAN :
           LET req == Request("search_tags",
                              Arg("search_term", term) \o Arg("limit", limit))
           IN  Serve(req, Oracle(m1, "ok", mj, items),
                     handleSearchTags(req, zammadClient, backend,
                         Oracle(m1, "ok", mj, items)))

ListTextModules ==
    /\ Idle
    /\ \E items \in ModuleLists, m1 \in RawModes, mj \in BOOLEAN :
           LET req == Request("list_text_modules", <<>>)
           IN  Serve(req, Oracle(m1, "ok", mj, items),
                     handleListTextModules(req, zammadClient, backend,
                         Oracle(m1, "ok", mj, items)))

GetTextModule ==
    /\ Idle
    /\ \E id \in IdArgs, items \in ModuleLists, m1 \in RawModes, mj \in BOOLEAN :
           LET req == Request("get_text_module", Arg("text_module_id", id))
           IN  Serve(req, Oracle(m1, "ok", mj, items),
                     handleGetTextModule(req, zammadClient, backend,
                         Oracle(m1, "ok", mj, items)))

SearchTextModules ==
    /\ Idle
    /\ \E term \in SearchTerms, limit \in ExtraLimitArgs, items \in ModuleLists,
          m1 \in RawModes, mj \in BOOLEAN :
           LET req == Request("search_text_modules",
                              Arg("search_term", term) \o Arg("limit", limit))
           IN  Serve(req, Oracle(m1, "ok", mj, items),
                     handleSearchTextModules(req, zammadClient, backend,
                         Oracle(m1, "ok", mj, items)))

\* server.ServeStdio returns, because the input was closed or could not be
\* read: main logs the error and exits, or returns.  The process ends at
\* any moment of serving, with whatever its handlers were doing; what the
\* backend has already applied stays applied.
ServeStdioReturns ==
    /\ phase = "serving"
    /\ phase' = "exited"
    /\ request' = NoRequest
    /\ calls' = <<>>
    /\ result' = NoResult
    /\ encoder' = TRUE
    /\ inflight' = NoJobs
    /\ UNCHANGED <<env, zammadClient, backend>>

Next ==
    \/ Main
    \/ ServeStdioReturns
    \/ Deliver
    \/ ListTickets
    \/ ShowTicket
    \/ ListUsers
    \/ ShowUser
    \/ CreateTicket
    \/ SearchTickets
    \/ AddNoteToTicket
    \/ ReplyToTicket
    \/ GetTicket
    \/ GetUser
    \/ SearchUsers
    \/ GetTicketArticles
    \/ CloseTicket
    \/ AssignTicket
    \/ AddTagToTicket
    \/ GetTicketTags
    \/ ListAllTags
    \/ SearchTags
    \/ ListTextModules
    \/ GetTextModule
    \/ SearchTextModules

Spec == Init /\ [][Next]_vars

(***************************************************************************)
(* Concurrent delivery.  The transport may run handlers on several         *)
(* goroutines at once.  SpecConc follows each handler from one backend     *)
(* call to the next, so the calls of two requests interleave.  What a      *)
(* handler shares with the others is the package variable zammadClient,    *)
(* which it reads again for every request it builds, and the backend.      *)
(***************************************************************************)
\* The handler registered for a request (registerResources, registerTools).
Handle(req, client, b, o) ==
    CASE req.name = "zammad://tickets" -> handleListTickets(req, client, b, o)
      [] req.name = "zammad://tickets/{ticket_id}" -> handleShowTicket(req, client, b, o)
      [] req.name = "zammad://users" -> handleListUsers(req, client, b, o)
      [] req.name = "zammad://users/{user_id}" -> handleShowUser(req, client, b, o)
      [] req.name = "create_ticket" -> handleCreateTicket(req, client, b, o)
      [] req.name = "search_tickets" -> handleSearchTickets(req, client, b, o)
      [] req.name = "add_note_to_ticket" -> handleAddNoteToTicket(req, client, b, o)
      [] req.name = "reply_to_ticket" -> handleReplyToTicket(req, client, b, o)
      [] req.name = "get_ticket" -> handleGetTicket(req, client, b, o)
      [] req.name = "get_user" -> handleGetUser(req, client, b, o)
      [] req.name = "search_users" -> handleSearchUsers(req, client, b, o)
      [] req.name = "get_ticket_articles" -> handleGetTicketArticles(req, client, b, o)
      [] req.name = "close_ticket" -> handleCloseTicket(req, client, b, o)
      [] req.name = "assign_ticket" -> handleAssignTicket(req, client, b, o)
      [] req.name = "add_tag_to_ticket" -> handleAddTagToTicket(req, client, b, o)
      [] req.name = "get_ticket_tags" -> handleGetTicketTags(req, client, b, o)
      [] req.name = "list_all_tags" -> handleListAllTags(req, client, b, o)
      [] req.name = "search_tags" -> handleSearchTags(req, client, b, o)
      [] req.name = "list_text_modules" -> handleListTextModules(req, client, b, o)
      [] req.name = "get_text_module" -> handleGetTextModule(req, client, b, o)
      [] req.name = "search_text_modules" -> handleSearchTextModules(req, client, b, o)

\* The requests delivered concurrently: reads and updates of ticket 1 and
\* user 1, with one or two backend calls each.
ConcurrentRequests ==
    {Request("get_ticket", Arg("ticket_id", <<1>>)),
     Request("get_user", Arg("user_id", <<1>>) \o Arg("with_extended_data", <<TRUE>>)),
     Request("reply_to_ticket", Arg("ticket_id", <<1>>) \o Arg("body", <<Str_x>>)),
     Request("close_ticket", Arg("ticket_id", <<1>>) \o Arg("note", <<Str_x>>)),
     Request("assign_ticket", Arg("ticket_id", <<1>>) \o Arg("agent_id", <<MaxId>>)
                              \o Arg("note", <<Str_x>>)),
     Request("add_tag_to_ticket", Arg("ticket_id", <<1>>) \o Arg("tag_name", <<Str_x>>))}

ConcurrentOracles ==
    {Oracle(m1, m2, TRUE, <<[Name |-> Str_x]>>) :
        m1 \in {"ok", "neterr"}, m2 \in TypedModes}

\* The handler running on goroutine w as it is now: it sees the backend as
\* of its first call, and the client as it is at this moment.
Running(w) ==
    LET job == inflight[w]
    IN  Handle(job.req, zammadClient, IF job.calls = <<>> THEN backend ELSE job.b,
               job.o)

\* The transport hands a request to a free goroutine.
Accept(w) ==
    /\ phase = "serving"
    /\ inflight[w].status = "free"
    /\ \E req \in ConcurrentRequests, o \in ConcurrentOracles :
          inflight' = [inflight EXCEPT ![w] =
                          [status |-> "running", req |-> req, o |-> o, b |-> backend,
                           calls |-> <<>>, result |-> NoResult]]
    /\ UNCHANGED <<phase, env, zammadClient, backend, request, calls, result, encoder>>

\* The handler on goroutine w issues its next backend call.  What the
\* handler assigns to the shared zammadClient takes effect for every
\* goroutine from here on.
Step(w) ==
    /\ phase = "serving"
    /\ inflight[w].status = "running"
    /\ Len(inflight[w].calls) < Len(Running(w).calls)
    /\ LET c == Running(w).calls[Len(inflight[w].calls) + 1]
       IN  /\ inflight' = [inflight EXCEPT ![w].calls = Append(@, c),
                                           ![w].b = IF inflight[w].calls = <<>>
                                                    THEN backend ELSE @]
           /\ backend' = BackendAfter(backend, <<c>>)
    /\ zammadClient' = Running(w).client
    /\ UNCHANGED <<phase, env, request, calls, result, encoder>>

\* The handler on goroutine w has issued all its calls and returns.
Return(w) ==
    /\ phase = "serving"
    /\ inflight[w].status = "running"
    /\ Len(inflight[w].calls) >= Len(Running(w).calls)
    /\ inflight' = [inflight EXCEPT ![w].status = "done",
                                    ![w].result = Running(w).result]
    /\ zammadClient' = Running(w).client
    /\ UNCHANGED <<phase, env, backend, request, calls, result, encoder>>

\* The response is written to the transport and the goroutine ends.
Reap(w) ==
    /\ phase = "serving"
    /\ inflight[w].status = "done"
    /\ inflight' = [inflight EXCEPT ![w] = NoJob]
    /\ UNCHANGED <<phase, env, zammadClient, backend, request, calls, result, encoder>>

NextConc ==
    \/ Main
    \/ ServeStdioReturns
    \/ \E w \in Workers : Accept(w)
    \/ \E w \in Workers : Step(w)
    \/ \E w \in Workers : Return(w)
    \/ \E w \in Workers : Reap(w)

InitConc ==
    /\ Init
    /\ backend = [title |-> Str_P, state |-> Str_open, owner_id |-> 0]

SpecConc == InitConc /\ [][NextConc]_vars

\* The server handling one request at a time, started on one open,
\* unassigned ticket: whatever else a read shows was changed since.
SpecFromOpen == InitConc /\ [][Next]_vars

(***************************************************************************)
(* Vocabulary of the properties.                                           *)
(***************************************************************************)
\* The tools with a required numeric id, each with the argument's key.
IdKeyOf ==
    [get_ticket |-> "ticket_id", get_user |-> "user_id",
     get_ticket_articles |-> "ticket_id", get_ticket_tags |-> "ticket_id",
     get_text_module |-> "text_module_id", add_note_to_ticket |-> "ticket_id",
     reply_to_ticket |-> "ticket_id", close_ticket |-> "ticket_id",
     assign_ticket |-> "ticket_id", add_tag_to_ticket |-> "ticket_id"]

\* The resource templates with a numeric id, each with the argument's key.
UriKeyOf ==
    [tickets |-> <<"zammad://tickets/{ticket_id}", "ticket_id">>,
     users |-> <<"zammad://users/{user_id}", "user_id">>]

\* The id of a resource read is absent, or a number that is not positive.
UriIdNotPositive(key) ==
    \/ ~HasArg(request, key)
    \/ /\ ArgValue(request, key).isString
       /\ Atoi(ArgValue(request, key).v).ok
       /\ Atoi(ArgValue(request, key).v).val <= 0

\* The tools with required strings, each with the keys of those strings.
StringKeysOf ==
    [create_ticket |-> {"title", "group", "customer", "body"},
     add_note_to_ticket |-> {"body"}, reply_to_ticket |-> {"body"},
     search_tickets |-> {"query"}, search_users |-> {"query"},
     add_tag_to_ticket |-> {"tag_name"}, search_tags |-> {"search_term"},
     search_text_modules |-> {"search_term"}]

IsTool(name) == request.name = name

\* The first call of the request was answered with status 200 and a body
\* that decodes.
FirstCallServed ==
    /\ Len(calls) >= 1
    /\ ~calls[1].resp.err
    /\ calls[1].resp.status = StatusOK
    /\ calls[1].resp.body # <<>>

NoteGiven == ParseString(request, "note", Empty) # Empty

(***************************************************************************)
(* C1.  For every capability with a required numeric id (the ten tools of  *)
(* IdKeyOf and the resources tickets/{id} and users/{id}), a request whose *)
(* id is <= 0 or absent yields a validation error and issues no backend    *)
(* call.  The resource handlers pass every number strconv.Atoi accepts to  *)
(* the backend, so this fails for zammad://tickets/0.                      *)
(***************************************************************************)
C1_NonPositiveIdRejected ==
    /\ \A tool \in DOMAIN IdKeyOf :
         (IsTool(tool) /\ ParseInt(request, IdKeyOf[tool], 0) <= 0)
             => (result.kind = "toolError" /\ calls = <<>>)
    /\ (IsTool("assign_ticket") /\ ParseInt(request, "agent_id", 0) <= 0)
             => (result.kind = "toolError" /\ calls = <<>>)
    /\ \A r \in DOMAIN UriKeyOf :
         (IsTool(UriKeyOf[r][1]) /\ UriIdNotPositive(UriKeyOf[r][2]))
             => (result.kind = "error" /\ calls = <<>>)

(***************************************************************************)
(* C2.  For every tool with a required string, a request in which one of   *)
(* the required strings is empty or absent yields a tool-level validation  *)
(* error and issues no backend call, whatever its other arguments are.     *)
(***************************************************************************)
C2_EmptyStringRejected ==
    \A tool \in DOMAIN StringKeysOf :
        \A key \in StringKeysOf[tool] :
            (IsTool(tool) /\ ParseString(request, key, Empty) = Empty)
                => (result.kind = "toolError" /\ calls = <<>>)

\* create_ticket with only its body empty was rejected without a call.
C2_Witness ==
    /\ IsTool("create_ticket")
    /\ ParseString(request, "title", Empty) = Str_x
    /\ ParseString(request, "group", Empty) = Str_x
    /\ ParseString(request, "customer", Empty) = Str_x
    /\ HasArg(request, "body") /\ ArgValue(request, "body") = Empty
    /\ result.kind = "toolError"
    /\ calls = <<>>

(***************************************************************************)
(* C3.  close_ticket and assign_ticket with a non-empty note: once the     *)
(* update call has succeeded, the note-creation call is issued and the     *)
(* result is the text result of a success both when that call succeeds     *)
(* and when it fails.                                                      *)
(***************************************************************************)
C3_NoteOutcomeNeverFails ==
    ((IsTool("close_ticket") \/ IsTool("assign_ticket"))
        /\ NoteGiven /\ FirstCallServed)
    => /\ Len(calls) = 2
       /\ calls[2].op = "TicketArticleCreate"
       /\ result.kind = "text"
       /\ result.msg = IF IsTool("close_ticket")
                       THEN "Ticket %d closed successfully:"
                       ELSE "Ticket %d assigned to agent %d successfully:"

\* assign_ticket succeeded although its note could not be created.
C3_Witness ==
    /\ IsTool("assign_ticket")
    /\ NoteGiven
    /\ FirstCallServed
    /\ Len(calls) = 2
    /\ calls[2].resp.err
    /\ result.kind = "text"

(***************************************************************************)
(* C4.  close_ticket whose update call succeeds and whose note-creation    *)
(* call fails returns a success result that carries the ticket's new       *)
(* state and a warning that the note failed, so that the response differs  *)
(* from the one of a request whose note succeeded.  The handler only logs  *)
(* the failure: the response is the same in both cases.                    *)
(***************************************************************************)
C4_NoteFailureReported ==
    (/\ IsTool("close_ticket")
     /\ NoteGiven
     /\ FirstCallServed
     /\ Len(calls) = 2
     /\ calls[2].resp.err
     /\ result.data # <<>>)
    => /\ result.kind = "text"
       /\ result.data[1].state = Str_closed
       /\ result # handleCloseTicket(request, zammadClient, backend,
                                     Oracle("ok", "ok", TRUE, <<>>)).result

(***************************************************************************)
(* C5.  reply_to_ticket with a valid ticket id and body and no subject     *)
(* first issues a get-ticket call for that ticket; when it succeeds the    *)
(* request then issues exactly one article-creation call, whose subject is *)
(* "Re: " followed by the ticket's title, whose type is email, whose       *)
(* sender is Agent and whose content type is text/html.                    *)
(***************************************************************************)
C5_ReplySubjectDerived ==
    (/\ IsTool("reply_to_ticket")
     /\ ParseInt(request, "ticket_id", 0) > 0
     /\ ParseString(request, "body", Empty) # Empty
     /\ ParseString(request, "subject", Empty) = Empty)
    => /\ Len(calls) >= 1
       /\ calls[1].op = "TicketShow"
       /\ calls[1].id = ParseInt(request, "ticket_id", 0)
       /\ ~calls[1].resp.err =>
            /\ Len(calls) = 2
            /\ calls[2].op = "TicketArticleCreate"
            /\ calls[2].payload.TicketID = ParseInt(request, "ticket_id", 0)
            /\ calls[2].payload.Subject = <<82, 101, 58, 32>> \o backend.title
            /\ calls[2].payload.Type = Str_email
            /\ calls[2].payload.Sender = Str_Agent
            /\ calls[2].payload.ContentType = Str_html
            /\ calls[2].payload.Body = ParseString(request, "body", Empty)

\* A reply to the ticket titled "Jam" was created with the subject "Re: Jam".
C5_Witness ==
    /\ IsTool("reply_to_ticket")
    /\ ~HasArg(request, "subject")
    /\ Len(calls) = 2
    /\ calls[1].op = "TicketShow"
    /\ calls[2].op = "TicketArticleCreate"
    /\ calls[2].payload.Subject = <<82, 101, 58, 32, 74, 97, 109>>
    /\ result.kind = "text"

(***************************************************************************)
(* C6.  add_tag_to_ticket: once the association call has answered with     *)
(* status 200 or 201, exactly one verification read of the ticket's tags   *)
(* follows, and the result is a text result, not an error, in all three    *)
(* cases: the read failed, the tag is in the list, the tag is not.         *)
(***************************************************************************)
C6_VerificationNeverFails ==
    (/\ IsTool("add_tag_to_ticket")
     /\ Len(calls) >= 1
     /\ ~calls[1].resp.err
     /\ calls[1].resp.status \in {StatusOK, StatusCreated})
    => /\ Len(calls) = 2
       /\ calls[1].op = "POST /api/v1/tags/add"
       /\ calls[2].op = "TicketTagByTicket"
       /\ calls[2].id = ParseInt(request, "ticket_id", 0)
       /\ result.kind = "text"
       /\ result.msg =
            IF calls[2].resp.err
            THEN "Tag '%s' added to ticket %d (verification failed: %v)"
            ELSE IF \E i \in 1..Len(calls[2].resp.body[1]) :
                       calls[2].resp.body[1][i].Name = ArgValue(request, "tag_name")
            THEN "Tag '%s' successfully added to ticket %d (verified)"
            ELSE "Tag '%s' added to ticket %d (not found in verification - may need time to propagate)"

\* The tag was added (201) and the list read back holds another tag only:
\* the result is still a text result.
C6_Witness ==
    /\ IsTool("add_tag_to_ticket")
    /\ Len(calls) = 2
    /\ calls[1].resp.status = StatusCreated
    /\ ~calls[2].resp.err
    /\ Len(calls[2].resp.body[1]) = 1
    /\ calls[2].resp.body[1][1].Name # ArgValue(request, "tag_name")
    /\ result.kind = "text"

(***************************************************************************)
(* Case-insensitive containment, stated position by position: t occurs in  *)
(* s at some offset, the letters A-Z counting as a-z.                      *)
(***************************************************************************)
Fold(c) == IF c \in 65..90 THEN c + 32 ELSE c

OccursIgnoringCase(s, t) ==
    \E i \in 0..(Len(s) - Len(t)) :
        \A j \in 1..Len(t) : Fold(s[i + j]) = Fold(t[j])

ModuleMatches(m, t) ==
    \/ OccursIgnoringCase(m.Name, t)
    \/ OccursIgnoringCase(m.Keywords, t)
    \/ OccursIgnoringCase(m.Content, t)

SearchTerm == ParseString(request, "search_term", Empty)

(***************************************************************************)
(* C7.  search_text_modules with a non-empty term returns exactly the      *)
(* modules of the fetched collection whose name, keywords or content       *)
(* contains the term ignoring the case of ASCII letters, in their original *)
(* order, and no other module (unless the result cannot be encoded).       *)
(***************************************************************************)
C7_SearchReturnsExactlyMatches ==
    (IsTool("search_text_modules") /\ SearchTerm # Empty /\ FirstCallServed)
    => LET fetched == calls[1].resp.body[1]
           expected == SelectSeq(fetched, LAMBDA m : ModuleMatches(m, SearchTerm))
       IN  /\ Len(calls) = 1
           /\ \/ /\ result.kind = "text"
                 /\ result.data = IF expected = <<>> THEN <<>> ELSE <<expected>>
              \/ /\ expected # <<>>
                 /\ result = NewToolResultError(
                                 "Failed to format text modules search results")

\* The term "AB" finds the module whose content is "xab" and leaves out the
\* module after it, which has no field containing it.
C7_Witness ==
    /\ IsTool("search_text_modules")
    /\ SearchTerm = <<65, 66>>
    /\ FirstCallServed
    /\ Len(calls[1].resp.body[1]) = 2
    /\ calls[1].resp.body[1][1].Name = Empty
    /\ calls[1].resp.body[1][1].Keywords = Empty
    /\ calls[1].resp.body[1][1].Content = <<120, 97, 98>>
    /\ result.kind = "text"
    /\ result.data = <<<<calls[1].resp.body[1][1]>>>>

(***************************************************************************)
(* C8 as the spec states it.  search_text_modules invoked with the empty   *)
(* search term fetches the collection and returns every module of it.      *)
(***************************************************************************)
C8_EmptyTermMatchesAll ==
    (/\ IsTool("search_text_modules")
     /\ HasArg(request, "search_term")
     /\ SearchTerm = Empty)
    => /\ Len(calls) = 1
       /\ (FirstCallServed /\ calls[1].resp.body[1] # <<>>)
             => result.data = calls[1].resp.body

(***************************************************************************)
(* C8, amended.  search_text_modules invoked with the empty search term    *)
(* is rejected with the validation error "Missing required argument:       *)
(* search_term" and issues no backend call; it is only the helper          *)
(* containsIgnoreCase that takes the empty term to match every string.     *)
(***************************************************************************)
C8_EmptyTermRejected ==
    /\ (IsTool("search_text_modules") /\ SearchTerm = Empty)
          => /\ result = NewToolResultError("Missing required argument: search_term")
             /\ calls = <<>>
    /\ \A m \in ModuleContents :
          /\ containsIgnoreCase(m.Name, Empty)
          /\ containsIgnoreCase(m.Keywords, Empty)
          /\ containsIgnoreCase(m.Content, Empty)

\* search_text_modules was called with search_term "" and rejected.
C8_Witness ==
    /\ IsTool("search_text_modules")
    /\ HasArg(request, "search_term")
    /\ ArgValue(request, "search_term") = Empty
    /\ result.kind = "toolError"
    /\ calls = <<>>

(***************************************************************************)
(* C9 as the spec states it.  search_tags fetches the full tag collection  *)
(* and returns exactly the tags whose name contains the term ignoring      *)
(* case, without delegating the matching to a backend search call.         *)
(***************************************************************************)
C9_SearchTagsClientSide ==
    (IsTool("search_tags") /\ SearchTerm # Empty)
    => /\ Len(calls) = 1
       /\ calls[1].op = "TagAdminList"
       /\ ~calls[1].resp.err =>
            LET expected == SelectSeq(calls[1].resp.body[1],
                                      LAMBDA t : OccursIgnoringCase(t.Name, SearchTerm))
            IN  \/ /\ result.kind = "text"
                   /\ result.data = IF expected = <<>> THEN <<>> ELSE <<expected>>
                \/ /\ expected # <<>>
                   /\ result = NewToolResultError("Failed to format tag search results")

(***************************************************************************)
(* C9, amended.  search_tags delegates the matching to the backend: it     *)
(* issues exactly one tag-search call carrying the search term and         *)
(* returns the tags of the answer as they are, in order, without           *)
(* filtering them (an empty answer is reported as no tags found).          *)
(***************************************************************************)
C9_SearchTagsDelegated ==
    (IsTool("search_tags") /\ SearchTerm # Empty)
    => /\ Len(calls) = 1
       /\ calls[1].op = "TagSearch"
       /\ calls[1].payload = SearchTerm
       /\ ~calls[1].resp.err =>
            LET answer == calls[1].resp.body[1]
            IN  \/ /\ result.kind = "text"
                   /\ result.data = IF answer = <<>> THEN <<>> ELSE <<answer>>
                \/ /\ answer # <<>>
                   /\ result = NewToolResultError("Failed to format tag search results")

\* The backend answered a search for "AB" with the tag "x", and the handler
\* returned that tag.
C9_Witness ==
    /\ IsTool("search_tags")
    /\ SearchTerm = <<65, 66>>
    /\ Len(calls) = 1
    /\ calls[1].op = "TagSearch"
    /\ ~calls[1].resp.err
    /\ result.kind = "text"
    /\ result.data = <<<<[Name |-> <<120>>]>>>>

(***************************************************************************)
(* The handlers that build raw HTTP requests; get_user does when           *)
(* with_extended_data is true.                                             *)
(***************************************************************************)
RawTools ==
    {"close_ticket", "assign_ticket", "add_tag_to_ticket", "list_text_modules",
     "get_text_module", "search_text_modules"}

BuildsRawRequest ==
    \/ request.name \in RawTools
    \/ IsTool("get_user") /\ ParseBoolean(request, "with_extended_data", FALSE)

BasicSet == zammadClient.Username # "" /\ zammadClient.Password # ""

\* Every call of a raw-HTTP handler that precedes its typed follow-up is a
\* raw request and carries the credential cred.
RawRequestsCarry(cred) ==
    /\ \A i \in 1..Len(calls) : calls[i].raw => calls[i].auth = cred
    /\ (BuildsRawRequest /\ Len(calls) >= 1) => calls[1].raw

(***************************************************************************)
(* C10.  Every raw HTTP request built by a handler carries, for every      *)
(* credential configuration the server runs with, basic auth if username   *)
(* and password are both set, else the token if set, else the OAuth bearer *)
(* if set.  main configures the URL and the token only, so the credential  *)
(* the precedence selects is the token of the environment.                 *)
(***************************************************************************)
C10_BasicFirst ==
    RawRequestsCarry(
        IF BasicSet THEN [scheme |-> "Basic", cred |-> zammadClient.Username]
        ELSE IF zammadClient.Token # ""
        THEN [scheme |-> "Token", cred |-> zammadClient.Token]
        ELSE IF zammadClient.OAuth # ""
        THEN [scheme |-> "Bearer", cred |-> zammadClient.OAuth]
        ELSE NoAuth)

\* close_ticket sent its raw request with the token main read from the
\* environment, the only credential the client has.
C10_Witness ==
    /\ phase = "serving"
    /\ ~BasicSet
    /\ zammadClient.Token = env.ZAMMAD_TOKEN
    /\ zammadClient.OAuth = ""
    /\ IsTool("close_ticket")
    /\ Len(calls) >= 1
    /\ calls[1].raw
    /\ calls[1].auth = [scheme |-> "Token", cred |-> env.ZAMMAD_TOKEN]

(***************************************************************************)
(* Vocabulary of C11: the limit in force for the request, the caller's     *)
(* value or else 50.                                                       *)
(***************************************************************************)
LimitInForce == ParseInt(request, "limit", DefaultLimit)

SearchTools == {"search_tickets", "search_users", "search_tags", "search_text_modules"}

\* The search of the request ran under the limit in force: the backend
\* search call carried it, or, for the search done in the handler, no more
\* entries than the limit were returned.
SearchRanUnderLimit ==
    IF IsTool("search_text_modules")
    THEN (result.kind = "text" /\ result.data # <<>>)
             => Len(result.data[1]) <= LimitInForce
    ELSE /\ calls[1].op \in {"TicketSearch", "UserSearch"}
         /\ calls[1].payload.limit = LimitInForce

(***************************************************************************)
(* C11 as the spec states it.  Each of search_tickets, search_users,       *)
(* search_tags and search_text_modules runs its search under the limit in  *)
(* force, the caller's limit or 50 when omitted.  search_tags sends no     *)
(* limit and search_text_modules returns every match.                      *)
(***************************************************************************)
C11_EverySearchLimited ==
    (request.name \in SearchTools /\ Len(calls) >= 1) => SearchRanUnderLimit

(***************************************************************************)
(* C11, amended.  search_tickets and search_users with a non-empty query   *)
(* issue one search call that carries the query and the limit in force     *)
(* (the caller's value, 50 when omitted).  search_tags sends the term      *)
(* alone, and search_text_modules returns every matching module, whatever  *)
(* limit the caller sends.                                                 *)
(***************************************************************************)
C11_QuerySearchesLimited ==
    /\ (request.name \in {"search_tickets", "search_users"}
          /\ ParseString(request, "query", Empty) # Empty)
        => /\ Len(calls) = 1
           /\ calls[1].op = (IF IsTool("search_tickets") THEN "TicketSearch"
                              ELSE "UserSearch")
           /\ calls[1].payload = [query |-> ParseString(request, "query", Empty),
                                  limit |-> LimitInForce]
           /\ HasArg(request, "limit") =>
                  calls[1].payload.limit = ArgValue(request, "limit")
           /\ ~HasArg(request, "limit") => calls[1].payload.limit = 50
    /\ (IsTool("search_tags") /\ Len(calls) >= 1)
        => calls[1].payload = SearchTerm
    /\ (IsTool("search_text_modules") /\ FirstCallServed /\ result.kind = "text")
        => LET all == SelectSeq(calls[1].resp.body[1],
                                LAMBDA m : ModuleMatches(m, SearchTerm))
           IN  result.data = IF all = <<>> THEN <<>> ELSE <<all>>

\* search_users without a limit sent 50 to the backend.
C11_Witness ==
    /\ IsTool("search_users")
    /\ ~HasArg(request, "limit")
    /\ Len(calls) = 1
    /\ calls[1].op = "UserSearch"
    /\ calls[1].payload.limit = 50
    /\ result.kind = "text"

(***************************************************************************)
(* Vocabulary of C12: the read capabilities and when their arguments are   *)
(* valid.                                                                  *)
(***************************************************************************)
\* The id of a resource read is a decimal number greater than zero.
UriIdPositive(key) ==
    /\ HasArg(request, key)
    /\ ArgValue(request, key).isString
    /\ Atoi(ArgValue(request, key).v).ok
    /\ Atoi(ArgValue(request, key).v).val > 0

ReadToolIdKey ==
    [get_ticket |-> "ticket_id", get_user |-> "user_id",
     get_ticket_articles |-> "ticket_id", get_ticket_tags |-> "ticket_id",
     get_text_module |-> "text_module_id"]

ValidRead ==
    \/ request.name \in {"zammad://tickets", "zammad://users", "list_all_tags",
                         "list_text_modules"}
    \/ \E r \in DOMAIN UriKeyOf :
           IsTool(UriKeyOf[r][1]) /\ UriIdPositive(UriKeyOf[r][2])
    \/ \E tool \in DOMAIN ReadToolIdKey :
           IsTool(tool) /\ ParseInt(request, ReadToolIdKey[tool], 0) > 0
    \/ IsTool("search_text_modules") /\ SearchTerm # Empty

\* The backend operations that read.
ReadOps ==
    {"TicketList", "TicketShow", "UserList", "UserShow", "TicketArticleByTicket",
     "TicketTagByTicket", "TagAdminList", "GET /api/v1/users/%d",
     "GET /api/v1/text_modules", "GET /api/v1/text_modules/%d"}

(***************************************************************************)
(* C12.  A read capability with valid arguments issues exactly one backend *)
(* call, a read; when that call fails (transport error, non-success status *)
(* or undecodable body) the request ends with an error and that call stays *)
(* the only one.                                                           *)
(***************************************************************************)
C12_OneReadCall ==
    ValidRead
    => /\ Len(calls) = 1
       /\ calls[1].op \in ReadOps
       /\ ~FirstCallServed => result.kind \in {"toolError", "error"}

\* get_ticket_articles for ticket 1 failed at the backend: one call, error.
C12_Witness ==
    /\ IsTool("get_ticket_articles")
    /\ ParseInt(request, "ticket_id", 0) = 1
    /\ Len(calls) = 1
    /\ calls[1].resp.err
    /\ result.kind = "toolError"

(***************************************************************************)
(* Vocabulary of C13.                                                      *)
(***************************************************************************)
\* The id of a resource read is missing, not a string, or not a number.
UriIdMalformed(key) ==
    \/ ~HasArg(request, key)
    \/ ~ArgValue(request, key).isString
    \/ ~Atoi(ArgValue(request, key).v).ok

LookupFailed == Len(calls) = 1 /\ calls[1].resp.err

(***************************************************************************)
(* C13.  For the resource reads tickets/{id} and users/{id}: a missing or  *)
(* malformed id gives a ResourceNotFound error with no backend call, a     *)
(* failed lookup gives a ResourceNotFound error, and an error is           *)
(* ResourceNotFound only in these two cases.  A failure of the list        *)
(* resources and a JSON-encoding failure give errors that are not          *)
(* ResourceNotFound.                                                       *)
(***************************************************************************)
C13_NotFoundOnlyForLookups ==
    /\ \A r \in DOMAIN UriKeyOf :
         IsTool(UriKeyOf[r][1]) =>
            LET malformed == UriIdMalformed(UriKeyOf[r][2])
            IN  /\ malformed => (result.kind = "error" /\ result.notFound
                                  /\ calls = <<>>)
                /\ (~malformed /\ LookupFailed)
                       => (result.kind = "error" /\ result.notFound)
                /\ (result.kind = "error" /\ result.notFound)
                       => (malformed \/ LookupFailed)
                /\ (~malformed /\ ~LookupFailed /\ ~encoder)
                       => (result.kind = "error" /\ ~result.notFound)
    /\ request.name \in {"zammad://tickets", "zammad://users"} =>
         /\ result.kind = "error" => ~result.notFound
         /\ (LookupFailed \/ ~encoder) => result.kind = "error"

\* Reading users/1 reached the backend, and encoding the user failed: an
\* error that is not ResourceNotFound.
C13_Witness ==
    /\ IsTool("zammad://users/{user_id}")
    /\ Len(calls) = 1
    /\ ~calls[1].resp.err
    /\ ~encoder
    /\ result.kind = "error"
    /\ ~result.notFound

(***************************************************************************)
(* Vocabulary of C14 and C15.                                              *)
(***************************************************************************)
ResourceNames ==
    {"zammad://tickets", "zammad://tickets/{ticket_id}", "zammad://users",
     "zammad://users/{user_id}"}

ToolRequest == request # NoRequest /\ request.name \notin ResourceNames

\* Every call of the request was answered with status 200 and a body that
\* decodes.
EveryCallServed ==
    /\ Len(calls) >= 1
    /\ \A i \in 1..Len(calls) :
          /\ ~calls[i].resp.err
          /\ calls[i].resp.status = StatusOK
          /\ calls[i].resp.body # <<>>

\* The tools that answer an empty collection with a plain text and encode
\* nothing.
ListingTools == {"get_ticket_tags", "list_all_tags", "search_tags", "list_text_modules"}

\* The backend served the request and the handler has a value to encode.
AnswerToEncode ==
    /\ ToolRequest
    /\ ~IsTool("add_tag_to_ticket")
    /\ EveryCallServed
    /\ request.name \in ListingTools => calls[1].resp.body[1] # <<>>
    /\ IsTool("search_text_modules") =>
          \E i \in 1..Len(calls[1].resp.body[1]) :
              ModuleMatches(calls[1].resp.body[1][i], SearchTerm)

(***************************************************************************)
(* C14.  In every tool handler, when the backend served the request and    *)
(* JSON encoding of the result fails, the handler returns a protocol-level *)
(* error, never a tool-level error result and never a success result.      *)
(* Only get_ticket, get_user and get_ticket_articles do so: the other      *)
(* tools return a tool-level error or ignore the failure.                  *)
(***************************************************************************)
C14_EncodingFailureIsFault ==
    (AnswerToEncode /\ ~encoder) => result.kind = "error"

(***************************************************************************)
(* Vocabulary of C15: what fails a request before or at its primary step.  *)
(***************************************************************************)
ValidationFails ==
    \/ \E tool \in DOMAIN IdKeyOf :
           IsTool(tool) /\ ParseInt(request, IdKeyOf[tool], 0) <= 0
    \/ IsTool("assign_ticket") /\ ParseInt(request, "agent_id", 0) <= 0
    \/ \E tool \in DOMAIN StringKeysOf :
           /\ IsTool(tool)
           /\ \E key \in StringKeysOf[tool] : ParseString(request, key, Empty) = Empty
    \/ IsTool("add_tag_to_ticket")
           /\ Len(ParseString(request, "tag_name", Empty)) > 100

CallFailed(i) ==
    \/ calls[i].resp.err
    \/ calls[i].resp.status \notin {StatusOK, StatusCreated}

\* The primary step failed at the backend: the first call, and for
\* reply_to_ticket the creation of the article too.
PrimaryStepFails ==
    /\ Len(calls) >= 1
    /\ \/ CallFailed(1)
       \/ IsTool("reply_to_ticket") /\ CallFailed(Len(calls))

(***************************************************************************)
(* C15.  In every tool handler a validation failure, or a backend failure  *)
(* (transport error or non-success status) of a primary step, gives a      *)
(* tool-level error result with a message and no protocol-level error; a   *)
(* tool handler returns a protocol-level error only when the backend       *)
(* served the request and JSON encoding of the result failed.              *)
(***************************************************************************)
C15_FailuresStayLocal ==
    ToolRequest =>
       /\ ValidationFails => (result.kind = "toolError" /\ result.msg # ""
                               /\ calls = <<>>)
       /\ PrimaryStepFails => (result.kind = "toolError" /\ result.msg # "")
       /\ result.kind = "error" => (AnswerToEncode /\ ~encoder)

\* close_ticket for ticket 1 was answered with status 500: a tool-level
\* error.
C15_Witness ==
    /\ IsTool("close_ticket")
    /\ Len(calls) = 1
    /\ ~calls[1].resp.err
    /\ calls[1].resp.status = 500
    /\ result.kind = "toolError"

(***************************************************************************)
(* Vocabulary of C16.                                                      *)
(***************************************************************************)
EnvComplete == env.ZAMMAD_URL # "" /\ env.ZAMMAD_TOKEN # ""

\* The step is main's: it ran the identity check and the check succeeded.
IdentityChecked ==
    /\ Len(calls') = 1
    /\ calls'[1].op = "UserMe"
    /\ ~calls'[1].resp.err

(***************************************************************************)
(* C16.  A request is served only while the server is serving; the server  *)
(* is serving only if both environment inputs are non-empty, and it starts *)
(* serving only by main's step with one successful identity check.  When   *)
(* an input is empty or the identity check fails, main ends the process,   *)
(* and an ended process takes no further step: it serves nothing.          *)
(***************************************************************************)
C16_ServedOnlyAfterStartup ==
    /\ [](request # NoRequest => phase = "serving")
    /\ [](phase = "serving" => EnvComplete)
    /\ [][(phase # "serving" /\ phase' = "serving")
             => (phase = "start" /\ EnvComplete /\ IdentityChecked)]_vars
    /\ [][(phase = "start" /\ (~EnvComplete \/ ~IdentityChecked))
             => (phase' = "exited" /\ request' = NoRequest)]_vars
    /\ [][phase # "exited"]_vars

\* A request is being served after a startup with both inputs set.
C16_Witness ==
    /\ phase = "serving"
    /\ EnvComplete
    /\ zammadClient.Url = env.ZAMMAD_URL
    /\ zammadClient.Token = env.ZAMMAD_TOKEN
    /\ request # NoRequest
    /\ result # NoResult

(***************************************************************************)
(* Vocabulary of C17.                                                      *)
(***************************************************************************)
\* The client as main configures it from the environment.
StartupClient ==
    [Url |-> env.ZAMMAD_URL, Username |-> "", Password |-> "",
     Token |-> env.ZAMMAD_TOKEN, OAuth |-> ""]

\* What the request of goroutine w does when it runs alone against the
\* same backend answers.
Alone(w) ==
    Handle(inflight[w].req, StartupClient, inflight[w].b, inflight[w].o)

(***************************************************************************)
(* C17.  Under every interleaving of the backend calls of concurrently     *)
(* handled requests, the client configuration is the one main wrote at     *)
(* startup (no handler writes it), and the calls and the result of every   *)
(* finished request are those of the same request run alone against the    *)
(* same backend answers.                                                   *)
(***************************************************************************)
C17_RequestsIndependent ==
    /\ phase = "serving" => zammadClient = StartupClient
    /\ \A w \in Workers :
          inflight[w].status = "done"
              => /\ inflight[w].calls = Alone(w).calls
                 /\ inflight[w].result = Alone(w).result

\* close_ticket and assign_ticket ran at the same time: the close has
\* returned, and the assignment, whose update reached the backend after
\* the close's (it saw the ticket closed), has still to add its note.
C17_Witness ==
    /\ inflight["g1"].status = "done"
    /\ inflight["g1"].req.name = "close_ticket"
    /\ Len(inflight["g1"].calls) = 2
    /\ inflight["g1"].result.kind = "text"
    /\ inflight["g2"].status = "running"
    /\ inflight["g2"].req.name = "assign_ticket"
    /\ Len(inflight["g2"].calls) = 1
    /\ inflight["g2"].calls[1].raw
    /\ inflight["g2"].calls[1].auth = [scheme |-> "Token", cred |-> env.ZAMMAD_TOKEN]
    /\ inflight["g2"].b.state = Str_closed
    /\ backend.owner_id = MaxId

(***************************************************************************)
(* Vocabulary of C18.                                                      *)
(***************************************************************************)
\* The ticket as the backend holds it now.
CurrentTicket ==
    [id |-> 1, title |-> backend.title, state |-> backend.state,
     owner_id |-> backend.owner_id]

TicketReads == {"get_ticket", "zammad://tickets/{ticket_id}", "zammad://tickets"}

(***************************************************************************)
(* C18.  The server keeps nothing across requests: while it serves, its    *)
(* only state, the client configuration, is as startup left it; every      *)
(* valid read issues one backend call of its own; and a read of the ticket *)
(* that the backend served returns the ticket as the backend holds it at   *)
(* that moment, also after the ticket was closed or assigned.              *)
(***************************************************************************)
C18_NothingKept ==
    /\ phase = "serving" => zammadClient = StartupClient
    /\ ValidRead => (Len(calls) = 1 /\ calls[1].op \in ReadOps)
    /\ (request.name \in TicketReads /\ EveryCallServed /\ encoder)
        => result.data = IF IsTool("zammad://tickets")
                         THEN <<<<CurrentTicket>>>>
                         ELSE <<CurrentTicket>>

\* The server started on an open, unassigned ticket; get_ticket now returns
\* it closed and assigned, as earlier requests left it at the backend.
C18_Witness ==
    /\ IsTool("get_ticket")
    /\ Len(calls) = 1
    /\ result.kind = "text"
    /\ result.data = <<CurrentTicket>>
    /\ result.data[1].state = Str_closed
    /\ result.data[1].owner_id = MaxId

(***************************************************************************)
(* C19.  create_ticket with non-empty title, group, customer and body      *)
(* issues exactly one call, TicketCreate, whose payload holds the title,   *)
(* group and customer and, as the first article, the body with the type    *)
(* and the internal flag the caller gave, "note" and false when omitted.   *)
(* When the backend fails that call the result is an error and no other    *)
(* call is made.                                                           *)
(***************************************************************************)
C19_OneCreateCall ==
    (/\ IsTool("create_ticket")
     /\ \A key \in {"title", "group", "customer", "body"} :
           ParseString(request, key, Empty) # Empty)
    => /\ Len(calls) = 1
       /\ calls[1].op = "TicketCreate"
       /\ calls[1].payload.Title = ArgValue(request, "title")
       /\ calls[1].payload.Group = ArgValue(request, "group")
       /\ calls[1].payload.Customer = ArgValue(request, "customer")
       /\ calls[1].payload.Article.Body = ArgValue(request, "body")
       /\ calls[1].payload.Article.Type =
              (IF HasArg(request, "type") THEN ArgValue(request, "type")
               ELSE <<110, 111, 116, 101>>)
       /\ calls[1].payload.Article.Internal =
              (IF HasArg(request, "internal") THEN ArgValue(request, "internal")
               ELSE FALSE)
       /\ calls[1].resp.err => result.kind = "toolError"
       /\ ~calls[1].resp.err => result.kind = "text"

\* A ticket created without type and internal: the article is a note that
\* is not internal.
C19_Witness ==
    /\ IsTool("create_ticket")
    /\ ~HasArg(request, "type")
    /\ ~HasArg(request, "internal")
    /\ Len(calls) = 1
    /\ calls[1].payload.Article.Type = <<110, 111, 116, 101>>
    /\ calls[1].payload.Article.Internal = FALSE
    /\ result.kind = "text"

(***************************************************************************)
(* Vocabulary of C20.                                                      *)
(***************************************************************************)
\* The number of characters of a UTF-8 string: its bytes that do not
\* continue a character.
Characters(s) == Cardinality({i \in 1..Len(s) : s[i] < 128 \/ s[i] >= 192})

TagName == ParseString(request, "tag_name", Empty)

(***************************************************************************)
(* C20.  add_tag_to_ticket for a positive ticket id and a non-empty tag    *)
(* name accepts a name of at most 100 characters (it goes on to the        *)
(* backend) and rejects a name of more than 100 characters with a          *)
(* validation error and no backend call.  The handler compares the number  *)
(* of bytes, so a name of 51 two-byte characters is rejected.              *)
(***************************************************************************)
C20_LimitInCharacters ==
    (IsTool("add_tag_to_ticket") /\ ParseInt(request, "ticket_id", 0) > 0
        /\ TagName # Empty)
    => /\ Characters(TagName) <= 100 => Len(calls) >= 1
       /\ Characters(TagName) > 100 => (result.kind = "toolError" /\ calls = <<>>)

(***************************************************************************)
(* Vocabulary of C21.                                                      *)
(***************************************************************************)
\* The value of with_extended_data in force: the caller's, false when
\* omitted.
ExtendedAsked ==
    HasArg(request, "with_extended_data")
        /\ ArgValue(request, "with_extended_data") = TRUE

\* get_user for a positive user id, the requests that reach the backend.
ValidGetUser == IsTool("get_user") /\ ParseInt(request, "user_id", 0) > 0

(***************************************************************************)
(* C21.  get_user for a positive user id.  Without with_extended_data, or  *)
(* with false, it issues exactly one call, the typed UserShow, and a       *)
(* successful answer holds exactly the fields id, organization_id, login,  *)
(* firstname, lastname, email, web and last_login.  With true it issues    *)
(* exactly one call, the raw GET of the user, and no typed call, and a     *)
(* successful answer is the decoded backend response, every field of it,   *)
(* custom fields included.                                                 *)
(***************************************************************************)
C21_ExtendedDataSwitch ==
    ValidGetUser
    => /\ Len(calls) = 1
       /\ calls[1].id = ParseInt(request, "user_id", 0)
       /\ ~ExtendedAsked
            => /\ calls[1].op = "UserShow" /\ ~calls[1].raw
               /\ result.kind = "text"
                    => /\ DOMAIN result.data[1] =
                            {"id", "organization_id", "login", "firstname",
                             "lastname", "email", "web", "last_login"}
                       /\ \A f \in DOMAIN result.data[1] :
                             result.data[1][f] = calls[1].resp.body[1][f]
       /\ ExtendedAsked
            => /\ calls[1].op = "GET /api/v1/users/%d" /\ calls[1].raw
               /\ result.kind = "text"
                    => /\ result.data = calls[1].resp.body
                       /\ "department" \in DOMAIN result.data[1]
                       /\ "phone" \in DOMAIN result.data[1]

\* get_user without with_extended_data answered with the standard fields
\* of a user whose backend record has more.
C21_Witness ==
    /\ ValidGetUser
    /\ ~HasArg(request, "with_extended_data")
    /\ Len(calls) = 1
    /\ calls[1].op = "UserShow"
    /\ result.kind = "text"
    /\ "phone" \in DOMAIN calls[1].resp.body[1]
    /\ "phone" \notin DOMAIN result.data[1]

(***************************************************************************)
(* Vocabulary of C22.                                                      *)
(***************************************************************************)
\* The logical steps of a request are its backend operations: a step that
\* is attempted again shows as two calls of the same operation.
StepAttempts(op) == Cardinality({i \in 1..Len(calls) : calls[i].op = op})

(***************************************************************************)
(* C22.  No handler retries.  Within one request every backend operation   *)
(* is called at most once, also when the call fails, and a request issues  *)
(* at most two backend calls; a call that failed is never followed by a    *)
(* call of the same operation.                                             *)
(***************************************************************************)
C22_NoRetries ==
    /\ Len(calls) <= 2
    /\ \A i \in 1..Len(calls) : StepAttempts(calls[i].op) = 1
    /\ \A i \in 1..Len(calls) :
          CallFailed(i) => \A j \in (i+1)..Len(calls) : calls[j].op # calls[i].op

\* add_tag_to_ticket whose association call met a transport error: the
\* call was made once and the request ended.
C22_Witness ==
    /\ IsTool("add_tag_to_ticket")
    /\ Len(calls) = 1
    /\ calls[1].op = "POST /api/v1/tags/add"
    /\ calls[1].resp.err
    /\ result.kind = "toolError"

(***************************************************************************)
(* Vocabulary of C23.                                                      *)
(***************************************************************************)
\* The positions of the request's note-creation calls and of its update
\* calls, in the order the calls were issued.
NoteCalls == {i \in 1..Len(calls) : calls[i].op = "TicketArticleCreate"}

UpdateCalls == {i \in 1..Len(calls) : calls[i].op = "PUT /api/v1/tickets/%d"}

\* An update call that returned status 200 with a body that decodes.
UpdateServed(i) ==
    /\ ~calls[i].resp.err
    /\ calls[i].resp.status = StatusOK
    /\ calls[i].resp.body # <<>>

(***************************************************************************)
(* C23.  In close_ticket and assign_ticket the note-creation call is       *)
(* issued at most once per request, after the update call of the request   *)
(* and never before it, and only when the note argument is not empty and   *)
(* the update returned status 200 with a ticket body that decodes.  When   *)
(* the update fails (transport error, another status, a body that does not *)
(* decode) the result is an error and no note-creation call is issued.     *)
(***************************************************************************)
C23_NoteAfterUpdate ==
    (IsTool("close_ticket") \/ IsTool("assign_ticket"))
    => /\ Cardinality(NoteCalls) <= 1
       /\ \A i \in NoteCalls :
             /\ NoteGiven
             /\ \E j \in UpdateCalls : j < i /\ UpdateServed(j)
             /\ \A j \in UpdateCalls : j < i
       /\ \A j \in UpdateCalls :
             ~UpdateServed(j) => (result.kind = "toolError" /\ NoteCalls = {})

\* close_ticket with a note whose update returned a body that does not
\* decode: an error, and the note was not created.
C23_Witness ==
    /\ IsTool("close_ticket")
    /\ NoteGiven
    /\ Len(calls) = 1
    /\ calls[1].op = "PUT /api/v1/tickets/%d"
    /\ ~calls[1].resp.err
    /\ calls[1].resp.status = StatusOK
    /\ calls[1].resp.body = <<>>
    /\ result.kind = "toolError"

(***************************************************************************)
(* Vocabulary of C24 and C25.                                              *)
(***************************************************************************)
\* reply_to_ticket with arguments that pass validation.
ValidReply ==
    /\ IsTool("reply_to_ticket")
    /\ ParseInt(request, "ticket_id", 0) > 0
    /\ ParseString(request, "body", Empty) # Empty

SubjectGiven == ParseString(request, "subject", Empty) # Empty

ArticleCalls == {i \in 1..Len(calls) : calls[i].op = "TicketArticleCreate"}

(***************************************************************************)
(* C24.  reply_to_ticket with a valid ticket id and body and a non-empty   *)
(* subject issues no get-ticket call: the request makes exactly one        *)
(* backend call, the creation of the article, and the article's subject is *)
(* the caller's subject unchanged.                                         *)
(***************************************************************************)
C24_GivenSubjectNoFetch ==
    (ValidReply /\ SubjectGiven)
    => /\ Len(calls) = 1
       /\ calls[1].op = "TicketArticleCreate"
       /\ \A i \in 1..Len(calls) : calls[i].op # "TicketShow"
       /\ calls[1].payload.Subject = ArgValue(request, "subject")

\* A reply with the subject "x" to the ticket titled "Jam": one call, and
\* the article is titled "x".
C24_Witness ==
    /\ ValidReply
    /\ SubjectGiven
    /\ backend.title = <<74, 97, 109>>
    /\ Len(calls) = 1
    /\ calls[1].op = "TicketArticleCreate"
    /\ calls[1].payload.Subject = Str_x
    /\ result.kind = "text"

(***************************************************************************)
(* C25.  reply_to_ticket with a valid ticket id and body and no subject,   *)
(* whose get-ticket call fails: the result is a tool-level error result    *)
(* and the request issues no article-creation call, so no email article    *)
(* is created for it.                                                      *)
(***************************************************************************)
C25_FetchFailureStopsReply ==
    (/\ ValidReply
     /\ ~SubjectGiven
     /\ Len(calls) >= 1
     /\ calls[1].op = "TicketShow"
     /\ calls[1].resp.err)
    => /\ result.kind = "toolError"
       /\ result.msg = "Failed to fetch ticket %d"
       /\ ArticleCalls = {}
       /\ Len(calls) = 1

\* A reply without subject to a ticket the backend could not show.
C25_Witness ==
    /\ ValidReply
    /\ ~SubjectGiven
    /\ Len(calls) = 1
    /\ calls[1].op = "TicketShow"
    /\ calls[1].resp.err
    /\ result.kind = "toolError"

(***************************************************************************)
(* Vocabulary of C26.                                                      *)
(***************************************************************************)
\* add_tag_to_ticket with arguments that pass validation.
ValidAddTag ==
    /\ IsTool("add_tag_to_ticket")
    /\ ParseInt(request, "ticket_id", 0) > 0
    /\ TagName # Empty
    /\ Len(TagName) <= 100

\* The association request could not be built, could not be sent, or was
\* answered with a status other than 200 and 201.
AssociationFailed ==
    \/ calls = <<>>
    \/ /\ calls[1].op = "POST /api/v1/tags/add"
       /\ \/ calls[1].resp.err
          \/ calls[1].resp.status \notin {StatusOK, StatusCreated}

VerificationReads == {i \in 1..Len(calls) : calls[i].op = "TicketTagByTicket"}

(***************************************************************************)
(* C26.  add_tag_to_ticket with valid arguments whose association call     *)
(* fails (the request cannot be built, a transport error, or a status      *)
(* other than 200 and 201) gives a tool-level error result and issues no   *)
(* verification read; the add is reported successful only when the         *)
(* association call was answered with status 200 or 201.                   *)
(***************************************************************************)
C26_AddFailureStopsRequest ==
    ValidAddTag
    => /\ calls = <<>> <=> NewRequestFails(zammadClient)
       /\ AssociationFailed
            => /\ result.kind = "toolError"
               /\ result.msg = "Failed to add tag '%s' to ticket %d"
               /\ VerificationReads = {}
               /\ Len(calls) <= 1
       /\ result.kind = "text"
            => /\ Len(calls) >= 1
               /\ calls[1].op = "POST /api/v1/tags/add"
               /\ ~calls[1].resp.err
               /\ calls[1].resp.status \in {StatusOK, StatusCreated}

\* The association call for an existing ticket was answered with status
\* 500: an error, and the ticket's tags were not read.
C26_Witness ==
    /\ ValidAddTag
    /\ ParseInt(request, "ticket_id", 0) \in ExistingIds
    /\ Len(calls) = 1
    /\ calls[1].op = "POST /api/v1/tags/add"
    /\ ~calls[1].resp.err
    /\ calls[1].resp.status = 500
    /\ result.kind = "toolError"

(***************************************************************************)
(* containsIgnoreCase on its own (main.go:1151-1183): the function applied *)
(* to every pair of strings of at most MaxStrLen bytes over an alphabet    *)
(* that holds a letter in both cases ("A", "a") and the bytes next below   *)
(* them ("@", "`"), which toLower must leave alone.                        *)
(***************************************************************************)
Alphabet == {64, 65, 96, 97}

Strings == UNION {[1..n -> Alphabet] : n \in 0..MaxStrLen}

BoolResult(v) == [kind |-> "bool", msg |-> "", data |-> <<v>>, notFound |-> FALSE]

InitContains ==
    /\ phase = "contains"
    /\ env = [ZAMMAD_URL |-> "", ZAMMAD_TOKEN |-> ""]
    /\ zammadClient = NilClient
    /\ backend = [title |-> Str_P, state |-> Str_open, owner_id |-> 0]
    /\ \E s \in Strings, substr \in Strings :
           request = Request("containsIgnoreCase",
                             <<<<"s", s>>, <<"substr", substr>>>>)
    /\ calls = <<>>
    /\ result = NoResult
    /\ encoder = TRUE
    /\ inflight = NoJobs

Contains ==
    /\ phase = "contains"
    /\ result = NoResult
    /\ result' = BoolResult(containsIgnoreCase(ArgValue(request, "s"),
                                               ArgValue(request, "substr")))
    /\ UNCHANGED <<phase, env, zammadClient, backend, request, calls, encoder,
                   inflight>>

SpecContains == InitContains /\ [][Contains]_vars

(***************************************************************************)
(* Vocabulary of C27.                                                      *)
(***************************************************************************)
Applied == phase = "contains" /\ result.kind = "bool"

\* The reference predicate: substr is empty, or at some offset i with
\* 0 <= i <= len(s)-len(substr) the two strings agree byte by byte once
\* the letters A-Z are folded to a-z.
ContainsReference(s, substr) ==
    \/ Len(substr) = 0
    \/ \E i \in 0..(Len(s) - Len(substr)) :
          \A j \in 1..Len(substr) : Fold(s[i + j]) = Fold(substr[j])

(***************************************************************************)
(* C27.  containsIgnoreCase(s, substr) equals the reference predicate for  *)
(* all strings of at most MaxStrLen bytes over the alphabet: it is true    *)
(* iff substr is empty or s and substr agree at some offset i with         *)
(* 0 <= i <= len(s)-len(substr) after folding A-Z to a-z; it is false      *)
(* whenever substr is not empty and longer than s; and every slice it      *)
(* takes lies inside s.                                                    *)
(***************************************************************************)
C27_ContainsIsReference ==
    Applied =>
       LET s == ArgValue(request, "s")
           substr == ArgValue(request, "substr")
       IN  /\ result.data[1] <=> ContainsReference(s, substr)
           /\ (Len(substr) > 0 /\ Len(substr) > Len(s)) => ~result.data[1]
           /\ \A w \in containsIgnoreCaseSlices(s, substr) :
                 0 <= w[1] /\ w[1] <= w[2] /\ w[2] <= Len(s)

\* "a" is found in "@`A": at the last offset, and only by folding.
C27_Witness ==
    /\ Applied
    /\ ArgValue(request, "s") = <<64, 96, 65>>
    /\ ArgValue(request, "substr") = <<97>>
    /\ result.data[1] = TRUE
    /\ <<2, 3>> \in containsIgnoreCaseSlices(<<64, 96, 65>>, <<97>>)

(***************************************************************************)
(* Vocabulary of C28.                                                      *)
(***************************************************************************)
\* The step that serves a request of the given tool.
Serves(tool) == request = NoRequest /\ request'.name = tool

(***************************************************************************)
(* C28.  The update call of close_ticket sends a payload that holds the    *)
(* state field alone, set to "closed", and that of assign_ticket the       *)
(* owner_id field alone, set to the given agent id; serving either request *)
(* changes no other field of the ticket (close_ticket leaves title and     *)
(* owner, assign_ticket title and state).  The optional note of either is  *)
(* created as an article of type "note" with the internal flag set.        *)
(***************************************************************************)
C28_PartialUpdateOnly ==
    /\ [](IsTool("close_ticket") =>
            \A i \in UpdateCalls :
                /\ DOMAIN calls[i].payload = {"state"}
                /\ calls[i].payload.state = <<99, 108, 111, 115, 101, 100>>)
    /\ [](IsTool("assign_ticket") =>
            \A i \in UpdateCalls :
                /\ DOMAIN calls[i].payload = {"owner_id"}
                /\ calls[i].payload.owner_id = ParseInt(request, "agent_id", 0))
    /\ []((IsTool("close_ticket") \/ IsTool("assign_ticket")) =>
            \A i \in NoteCalls :
                /\ calls[i].payload.Type = <<110, 111, 116, 101>>
                /\ calls[i].payload.Internal = TRUE
                /\ calls[i].payload.Body = ParseString(request, "note", Empty))
    /\ [][Serves("close_ticket") =>
             (backend'.title = backend.title
                 /\ backend'.owner_id = backend.owner_id)]_vars
    /\ [][Serves("assign_ticket") =>
             (backend'.title = backend.title
                 /\ backend'.state = backend.state)]_vars

\* Ticket 1, not closed, was assigned to agent 2 with a note: the update
\* carried the owner alone, the ticket kept its state, the note is internal.
C28_Witness ==
    /\ IsTool("assign_ticket")
    /\ Len(calls) = 2
    /\ calls[1].payload = [owner_id |-> 2]
    /\ backend.owner_id = 2
    /\ backend.state # <<99, 108, 111, 115, 101, 100>>
    /\ calls[2].op = "TicketArticleCreate"
    /\ calls[2].payload.Internal = TRUE
    /\ result.kind = "text"

====
